---- MODULE Spec2Model ----
(***************************************************************************)
(* A model of the GPS position system's resilient network layer            *)
(* (gps_network_resilience.py: CircuitBreaker, ResilientNetworkClient) and  *)
(* of its position store (gps_data_model.py: GPSDataModel).                *)
(*                                                                         *)
(* Time is the value datetime.now() returns, counted in milliseconds       *)
(* since the breaker was constructed.                                      *)
(***************************************************************************)
EXTENDS Integers, Sequences, FiniteSets, TLC

\* ------------------------------------------------------------------ bounds
\* At most MaxDatagrams datagrams are received.
MaxDatagrams == 2
\* At most MaxCallbacks callbacks are registered.
MaxCallbacks == 2
\* The validator is called with every string of up to MaxSentenceLen
\* characters of a small alphabet.
MaxSentenceLen == 5
MaxTrackLen == 3
\* The clock stops advancing at MaxTime.
MaxTime == 4
\* failure_threshold ranges over 1..MaxThreshold.
MaxThreshold == 2
\* max_retries ranges over 1..MaxRetries.
MaxRetries == 2
\* execute_with_retry is called at most MaxCalls times in a behaviour.
MaxCalls == 3
\* failure_count, an unbounded int in the code, is kept at or below this
\* when the breaker's methods are called directly.
MaxFailureCount == 4
\* Likewise the number of can_attempt calls answered True in one HalfOpen
\* period.
MaxAdmitted == 3

\* A GPSDataModel is constructed with max_positions in 1..MaxCapacity, and
\* add_position is called at most MaxAdds times in a behaviour.
MaxCapacity == 2
MaxAdds == 3
\* Meters per degree of latitude: 6371000 * pi / 180, rounded.
MetersPerDegree == 111195
\* _calculate_backoff is applied to the attempt indices 0..MaxAttemptIndex.
MaxAttemptIndex == 4

\* The asyncio tasks sharing one ResilientNetworkClient.
Tasks == {"t1", "t2"}

None == "None"

Min(a, b) == IF a <= b THEN a ELSE b

RECURSIVE Pow(_, _)
Pow(b, e) == IF e = 0 THEN 1 ELSE b * Pow(b, e - 1)

\* ------------------------------------------------------ configurations
\* CircuitBreakerConfig values the breaker is constructed with.
CircuitBreakerConfigs ==
    [failure_threshold : 1..MaxThreshold,
     recovery_timeout_ms : {2},
     half_open_max_requests : {1}]

\* RetryConfig values the client is constructed with. With delays this
\* short the jitter (at most a tenth of the delay) is below one millisecond.
RetryConfigs ==
    [max_retries : 1..MaxRetries,
     initial_delay_ms : {1},
     max_delay_ms : {2},
     exponential_base : {2},
     jitter_enabled : {FALSE}]

\* Exceptions an operation passed to execute_with_retry may raise: any
\* Exception subclass, with any message.
CircuitOpenError == [type |-> "RuntimeError", msg |-> "Circuit breaker is open"]
OperationErrors ==
    {[type |-> "OSError", msg |-> "Network is unreachable"],
     [type |-> "RuntimeError", msg |-> "Circuit breaker is open"]}
\* Values an operation may return.
OperationResults == {"sent"}

VARIABLES
    now,              \* datetime.now()
    circuit_breaker,  \* ResilientNetworkClient.circuit_breaker (a CircuitBreaker)
    retry_config,     \* ResilientNetworkClient.retry_config
    stats,            \* ResilientNetworkClient.stats (RetryStats)
    pc,               \* per task: where its execute_with_retry call stands
    attempt,          \* per task: the loop variable of the retry loop
    last_error,       \* per task: the local last_error
    wake_at,          \* per task: when its asyncio.sleep ends
    outcome,          \* per task: what its last call returned or raised
    op_log,           \* per task: what each invocation of the operation did, this call
    recorded,         \* per task: breaker successes/failures recorded, this call
    slept,            \* per task: the delays slept, this call
    calls,            \* number of execute_with_retry calls so far
    streak,           \* failures recorded since the last recorded success
    admitted,         \* can_attempt calls answered True in this HalfOpen period
    last_attempt,     \* the last can_attempt call: its answer, and whether the
                      \* breaker was Open with the recovery timeout still running
    backoff,          \* the last _calculate_backoff call: its argument and result
    max_positions,    \* GPSDataModel.max_positions
    positions,        \* GPSDataModel._positions, a deque(maxlen=max_positions)
    observers,        \* GPSDataModel._observers, in registration order
    model_stats,      \* GPSDataModel._stats
    added,            \* the fixes added since the last clear(), oldest first
    notified,         \* the observer calls of the last add_position, in order
    adds,             \* number of add_position calls so far
    last_call,        \* the last GPSDataModel method called, with its argument
                      \* and its result, where calls are traced
    lock,             \* GPSDataModel._lock, a threading.RLock
    tpc,              \* per thread: its position in add_position
    local,            \* per thread: the local variables of its add_position call
    helper,           \* per thread: the thread its observer hands a query to
    overlapped,       \* an add_position call began while another thread was at
                      \* or inside the with block of its own call
    receiver,         \* the AsyncNMEAReceiver: is_running, socket, callbacks, stats
    rloop,            \* the coroutine running start() and receive_loop(): its
                      \* position, its local variables, what its last step did
    delivered,        \* the callback invocations made for the current datagram
    sender,           \* the AsyncNMEASender: its stats
    codec             \* the last NMEAValidator / NMEAGenerator call: its
                      \* arguments and its result

clientVars == <<retry_config, stats, pc, attempt, last_error, wake_at, outcome,
                op_log, recorded, slept, calls, backoff>>
breakerVars == <<now, circuit_breaker, streak, admitted, last_attempt>>
threadVars == <<lock, tpc, local, helper, overlapped>>
storeVars == <<max_positions, positions, observers, model_stats, added, notified, adds,
               last_call, threadVars>>
ioVars == <<receiver, rloop, delivered, codec>>
netVars == <<ioVars, sender>>

\* ------------------------------------------------------- CircuitBreaker
\* CircuitBreaker.__init__
CircuitBreakerInit(config, t) ==
    [config |-> config,
     state |-> "closed",
     failure_count |-> 0,
     success_count |-> 0,
     last_state_change |-> t]

\* A record_success that leaves failure_count as it is.
record_success_KeepCount(cb, t) ==
    IF cb.state = "half_open"
    THEN [cb EXCEPT !.state = "closed", !.last_state_change = t]
    ELSE cb

\* A record_success that closes the circuit from any state.
record_success_AnyState(cb, t) ==
    LET cb1 == [cb EXCEPT !.failure_count = 0]
    IN  IF cb1.state # "closed"
        THEN [cb1 EXCEPT !.state = "closed", !.last_state_change = t]
        ELSE cb1

\* CircuitBreaker.record_success
record_success(cb, t) ==
    LET cb1 == [cb EXCEPT !.failure_count = 0]
    IN  IF cb1.state = "half_open"
        THEN [cb1 EXCEPT !.state = "closed", !.last_state_change = t]
        ELSE cb1

\* A record_failure that opens one failure late.
record_failure_Late(cb, t) ==
    LET cb1 == [cb EXCEPT !.failure_count = cb.failure_count + 1]
    IN  IF cb1.state = "closed" /\ cb1.failure_count > cb1.config.failure_threshold
        THEN [cb1 EXCEPT !.state = "open", !.last_state_change = t]
        ELSE cb1

\* CircuitBreaker.record_failure
record_failure(cb, t) ==
    LET cb1 == [cb EXCEPT !.failure_count = cb.failure_count + 1]
    IN  IF cb1.state = "closed" /\ cb1.failure_count >= cb1.config.failure_threshold
        THEN [cb1 EXCEPT !.state = "open", !.last_state_change = t]
        ELSE cb1

\* CircuitBreaker.can_attempt: the answer and the breaker after the call.
can_attempt(cb, t) ==
    IF cb.state = "closed"
    THEN [ok |-> TRUE, cb |-> cb]
    ELSE IF cb.state = "open"
    THEN LET elapsed == t - cb.last_state_change
         IN  IF elapsed >= cb.config.recovery_timeout_ms
             THEN [ok |-> TRUE,
                   cb |-> [cb EXCEPT !.state = "half_open",
                                     !.failure_count = 0,
                                     !.last_state_change = t]]
             ELSE [ok |-> FALSE, cb |-> cb]
    ELSE [ok |-> cb.success_count < cb.config.half_open_max_requests, cb |-> cb]

\* The recovery timeout has not elapsed since the breaker opened.
OpenAndWaiting(cb, t) ==
    cb.state = "open" /\ t - cb.last_state_change < cb.config.recovery_timeout_ms

\* Bookkeeping of a breaker method call: the streak of failures, and the
\* number of admissions of the HalfOpen period the breaker is in after it.
Admitted(cb, cb2, ok) ==
    IF cb2.state # "half_open" THEN 0
    ELSE IF cb.state # "half_open" THEN 1
    ELSE IF ok THEN admitted + 1 ELSE admitted

BreakerRecordSuccess ==
    /\ circuit_breaker' = record_success(circuit_breaker, now)
    /\ streak' = 0
    /\ admitted' = Admitted(circuit_breaker, circuit_breaker', FALSE)
    /\ UNCHANGED last_attempt

BreakerRecordFailure ==
    /\ circuit_breaker' = record_failure(circuit_breaker, now)
    /\ streak' = streak + 1
    /\ admitted' = Admitted(circuit_breaker, circuit_breaker', FALSE)
    /\ UNCHANGED last_attempt

BreakerCanAttempt ==
    LET r == can_attempt(circuit_breaker, now)
    IN  /\ circuit_breaker' = r.cb
        /\ admitted' = Admitted(circuit_breaker, r.cb, r.ok)
        /\ last_attempt' = [ok |-> r.ok,
                            waiting |-> OpenAndWaiting(circuit_breaker, now)]
        /\ UNCHANGED streak

\* Time passes.
Tick ==
    /\ now < MaxTime
    /\ now' = now + 1
    /\ UNCHANGED <<circuit_breaker, streak, admitted, last_attempt>>

\* ----------------------------------------------- ResilientNetworkClient
\* RetryStats()
RetryStatsInit ==
    [total_attempts |-> 0, successful |-> 0, failed |-> 0,
     retries_triggered |-> 0, last_error |-> None]

\* ResilientNetworkClient._calculate_backoff: the delays it may return,
\* one for each value random.uniform(0, delay * 0.1) may draw (whole
\* milliseconds here).
calculate_backoff(rc, n) ==
    LET delay == Min(rc.initial_delay_ms * Pow(rc.exponential_base, n),
                     rc.max_delay_ms)
    IN  IF rc.jitter_enabled
        THEN {delay + jitter : jitter \in 0..(delay \div 10)}
        ELSE {delay}

\* Attempt n (0-indexed) of the retry loop over range(max_retries) is not
\* the last one: a backoff sleep and another attempt follow a failure.
AttemptsRemain_OneMore(rc, n) == n < rc.max_retries
AttemptsRemain(rc, n) == n < rc.max_retries - 1

\* The operation is invoked: its outcome is not known yet.
Invoked(log) == Append(log, [kind |-> "pending"])
\* The pending invocation ends with outcome o.
Ended(log, o) == [log EXCEPT ![Len(log)] = o]

NotInCall(t) == pc[t] \in {"idle", "returned", "raised", "rejected"}

\* An execute_with_retry that counts the attempt before it consults the
\* breaker.
Call_CountsBeforeBreaker(t) ==
    /\ NotInCall(t)
    /\ calls < MaxCalls
    /\ calls' = calls + 1
    /\ BreakerCanAttempt
    /\ recorded' = [recorded EXCEPT ![t] = [success |-> 0, failure |-> 0]]
    /\ slept' = [slept EXCEPT ![t] = <<>>]
    /\ last_error' = [last_error EXCEPT ![t] = None]
    /\ attempt' = [attempt EXCEPT ![t] = 0]
    /\ IF ~can_attempt(circuit_breaker, now).ok
       THEN /\ pc' = [pc EXCEPT ![t] = "rejected"]
            /\ outcome' = [outcome EXCEPT ![t] =
                             [kind |-> "raise", error |-> CircuitOpenError]]
            /\ op_log' = [op_log EXCEPT ![t] = <<>>]
            /\ stats' = [stats EXCEPT !.total_attempts = @ + 1]
       ELSE /\ pc' = [pc EXCEPT ![t] = "operation"]
            /\ outcome' = [outcome EXCEPT ![t] = [kind |-> "pending"]]
            /\ stats' = [stats EXCEPT !.total_attempts = @ + 1]
            /\ op_log' = [op_log EXCEPT ![t] = Invoked(<<>>)]
    /\ UNCHANGED <<now, retry_config, wake_at, backoff, storeVars, netVars>>

\* execute_with_retry up to its first await: the breaker is consulted, and
\* either the call is rejected or the first attempt invokes the operation.
Call(t) ==
    /\ NotInCall(t)
    /\ calls < MaxCalls
    /\ calls' = calls + 1
    /\ BreakerCanAttempt
    /\ recorded' = [recorded EXCEPT ![t] = [success |-> 0, failure |-> 0]]
    /\ slept' = [slept EXCEPT ![t] = <<>>]
    /\ last_error' = [last_error EXCEPT ![t] = None]
    /\ attempt' = [attempt EXCEPT ![t] = 0]
    /\ IF ~can_attempt(circuit_breaker, now).ok
       THEN /\ pc' = [pc EXCEPT ![t] = "rejected"]
            /\ outcome' = [outcome EXCEPT ![t] =
                             [kind |-> "raise", error |-> CircuitOpenError]]
            /\ op_log' = [op_log EXCEPT ![t] = <<>>]
            /\ UNCHANGED stats
       ELSE /\ pc' = [pc EXCEPT ![t] = "operation"]
            /\ outcome' = [outcome EXCEPT ![t] = [kind |-> "pending"]]
            /\ stats' = [stats EXCEPT !.total_attempts = @ + 1]
            /\ op_log' = [op_log EXCEPT ![t] = Invoked(<<>>)]
    /\ UNCHANGED <<now, retry_config, wake_at, backoff, storeVars, netVars>>

\* The awaited operation returns v: the success path of the loop body.
OperationReturns(t, v) ==
    /\ pc[t] = "operation"
    /\ op_log' = [op_log EXCEPT ![t] = Ended(@, [kind |-> "return", value |-> v])]
    /\ stats' = [stats EXCEPT !.successful = @ + 1]
    /\ BreakerRecordSuccess
    /\ recorded' = [recorded EXCEPT ![t].success = @ + 1]
    /\ pc' = [pc EXCEPT ![t] = "returned"]
    /\ outcome' = [outcome EXCEPT ![t] = [kind |-> "return", value |-> v]]
    /\ UNCHANGED <<now, retry_config, attempt, last_error, wake_at, slept, calls,
                   backoff, storeVars, ioVars>>

\* The awaited operation raises e: the except branch of the loop body, up
\* to the backoff sleep or, after the last attempt, to the final raise.
OperationRaises(t, e) ==
    /\ pc[t] = "operation"
    /\ op_log' = [op_log EXCEPT ![t] = Ended(@, [kind |-> "raise", error |-> e])]
    /\ last_error' = [last_error EXCEPT ![t] = e]
    /\ BreakerRecordFailure
    /\ recorded' = [recorded EXCEPT ![t].failure = @ + 1]
    /\ IF AttemptsRemain(retry_config, attempt[t])
       THEN \E delay \in calculate_backoff(retry_config, attempt[t]) :
              /\ stats' = [stats EXCEPT !.failed = @ + 1,
                                        !.retries_triggered = @ + 1]
              /\ backoff' = [attempt |-> attempt[t], delay |-> delay]
              /\ slept' = [slept EXCEPT ![t] = Append(@, delay)]
              /\ wake_at' = [wake_at EXCEPT ![t] = now + delay]
              /\ pc' = [pc EXCEPT ![t] = "sleep"]
              /\ UNCHANGED outcome
       ELSE /\ stats' = [stats EXCEPT !.failed = @ + 1, !.last_error = e]
            /\ pc' = [pc EXCEPT ![t] = "raised"]
            /\ outcome' = [outcome EXCEPT ![t] = [kind |-> "raise", error |-> e]]
            /\ UNCHANGED <<slept, wake_at, backoff>>
    /\ UNCHANGED <<now, retry_config, attempt, calls, storeVars, netVars>>

\* asyncio.sleep is over: the next iteration of the loop invokes the operation.
Wake(t) ==
    /\ pc[t] = "sleep"
    /\ now >= wake_at[t]
    /\ attempt' = [attempt EXCEPT ![t] = @ + 1]
    /\ stats' = [stats EXCEPT !.total_attempts = @ + 1]
    /\ op_log' = [op_log EXCEPT ![t] = Invoked(@)]
    /\ pc' = [pc EXCEPT ![t] = "operation"]
    /\ UNCHANGED <<now, circuit_breaker, streak, admitted, last_attempt, retry_config,
                   last_error, wake_at, outcome, recorded, slept, calls, backoff,
                   storeVars, netVars>>

\* ---------------------------------------------------------- GPSDataModel
\* Speeds are rational numbers num/den in lowest terms; an absent speed
\* (None) has den = 0.
Abs(x) == IF x < 0 THEN -x ELSE x

RECURSIVE Gcd(_, _)
Gcd(a, b) == IF b = 0 THEN a ELSE Gcd(b, a % b)

Rat(n, d) == LET g == Gcd(Abs(n), d) IN [num |-> n \div g, den |-> d \div g]
RatAdd(a, b) == Rat(a.num * b.den + b.num * a.den, a.den * b.den)
RatDivInt(a, k) == Rat(a.num, a.den * k)
NoSpeed == [num |-> 0, den |-> 0]
IsNone(speed) == speed.den = 0

\* The fixes add_position is called with: points of one meridian, so that
\* the Haversine distance is the arc length of the latitude difference.
Fixes ==
    [latitude : {0, 1},
     longitude : {0},
     timestamp : {0, 2},
     speed : {NoSpeed, Rat(3, 1)}]

\* The callbacks that may be registered, and the argument of get_positions
\* that stands for count=None.
Observers == {"o1", "o2"}
NoCount == -1

\* GPSPosition.distance_to for two points of one meridian, in meters:
\* R * c with c the latitude difference in radians, R = 6371000.
distance_to(a, b) == Abs(b.latitude - a.latitude) * MetersPerDegree

\* deque.append on a deque(maxlen=maxlen) that evicts the newest entry.
deque_append_EvictNewest(dq, maxlen, x) ==
    IF maxlen = 0 THEN dq
    ELSE IF Len(dq) = maxlen THEN Append(SubSeq(dq, 1, Len(dq) - 1), x)
    ELSE Append(dq, x)

\* deque.append on a deque(maxlen=maxlen): once full, the entry at the left
\* end is discarded.
deque_append(dq, maxlen, x) ==
    IF maxlen = 0 THEN dq
    ELSE IF Len(dq) = maxlen THEN Append(Tail(dq), x)
    ELSE Append(dq, x)

RECURSIVE SumSpeeds(_)
SumSpeeds(ps) ==
    IF ps = <<>> THEN Rat(0, 1)
    ELSE IF IsNone(Head(ps).speed) THEN SumSpeeds(Tail(ps))
    ELSE RatAdd(Head(ps).speed, SumSpeeds(Tail(ps)))

\* The entries of ps whose speed is present.
WithSpeed(ps) == SelectSeq(ps, LAMBDA p : ~IsNone(p.speed))

\* A _notify_observers without the try/except: the first observer that
\* raises ends the loop.
notify_observers_Abort(obs, position, raising) ==
    LET firsts == {i \in 1..Len(obs) : obs[i] \in raising}
        n == IF firsts = {} THEN Len(obs)
             ELSE CHOOSE i \in firsts : \A j \in firsts : i <= j
    IN  [i \in 1..n |->
            [observer |-> obs[i], position |-> position, raised |-> obs[i] \in raising]]

\* GPSDataModel._notify_observers: the calls made, in order. The observers
\* in raising raise; the exception is caught and the loop goes on.
notify_observers(obs, position, raising) ==
    [i \in 1..Len(obs) |->
        [observer |-> obs[i], position |-> position, raised |-> obs[i] \in raising]]

\* GPSDataModel.get_positions
get_positions(ps, count) ==
    IF count = NoCount THEN ps
    ELSE IF count = 0 \/ count >= Len(ps) THEN ps
    ELSE SubSeq(ps, Len(ps) - count + 1, Len(ps))

\* The fix at the left end of the history.
last_position_Oldest(ps) == ps[1]

\* self._positions[-1], the fix add_position measures the distance from.
last_position(ps) == ps[Len(ps)]

\* The speed add_position leaves in fix f when the history ends with
\* prev_pos, deriving it for a timestamp difference of either sign.
derive_speed_AnySign(prev_pos, f) ==
    LET distance == distance_to(prev_pos, f)
        time_diff == f.timestamp - prev_pos.timestamp
        backwards == Rat(distance, -time_diff)
    IN  IF ~IsNone(f.speed) \/ time_diff = 0 THEN f.speed
        ELSE IF time_diff > 0 THEN Rat(distance, time_diff)
        ELSE [num |-> -backwards.num, den |-> backwards.den]

\* The speed add_position leaves in fix f when the history ends with
\* prev_pos: distance / time_diff when f has none and time_diff > 0.
derive_speed(prev_pos, f) ==
    LET distance == distance_to(prev_pos, f)
        time_diff == f.timestamp - prev_pos.timestamp
    IN  IF IsNone(f.speed) /\ time_diff > 0
        THEN Rat(distance, time_diff)
        ELSE f.speed

\* The average_speed add_position leaves after appending position, stored
\* being the history with position in it and old the value before.
update_average_speed(stored, position, old) ==
    LET speeds == WithSpeed(stored)
    IN  IF ~IsNone(position.speed) /\ speeds # <<>>
        THEN RatDivInt(SumSpeeds(speeds), Len(speeds))
        ELSE old

\* The threads calling add_position concurrently, the thread an observer
\* running in thread t hands its query to, and the thread that registers
\* the observers.
Threads == {"a", "b"}
HelperOf(t) == IF t = "a" THEN "helper_a" ELSE "helper_b"
MainThread == "main"

\* threading.RLock(): its owner and recursion level.
RLockInit == [owner |-> None, count |-> 0]

\* A lock that never makes a thread wait.
can_acquire_Always(l, t) == TRUE

\* RLock.acquire returns at once for thread t.
can_acquire(l, t) == l.owner \in {None, t}

acquire(l, t) == [owner |-> t, count |-> l.count + 1]

\* A release that leaves the lock with its owner.
release_Keep(l, t) == l

\* RLock.release by thread t.
release(l, t) == IF l.count <= 1 THEN RLockInit ELSE [l EXCEPT !.count = @ - 1]

\* No method has been called yet; a thread outside add_position.
NoCall == [op |-> "none"]
NoLocal == [position |-> None, received |-> 0, pending |-> <<>>]

\* GPSDataModel.__init__
StoreInit(capacity) ==
    /\ max_positions = capacity
    /\ positions = <<>>
    /\ observers = <<>>
    /\ model_stats = [total_received |-> 0, total_distance |-> 0,
                      average_speed |-> Rat(0, 1)]
    /\ added = <<>>
    /\ notified = <<>>
    /\ adds = 0
    /\ last_call = NoCall
    /\ lock = RLockInit
    /\ tpc = [t \in Threads |-> "idle"]
    /\ local = [t \in Threads |-> NoLocal]
    /\ helper = [t \in Threads |-> "idle"]
    /\ overlapped = FALSE

\* GPSDataModel.add_position, called with a new GPSPosition object f by a
\* thread that no other thread interleaves with; the observers in raising
\* raise when they are notified.
AddPosition(f, raising) ==
    LET nonempty == Len(positions) > 0
        prev_pos == last_position(positions)
        distance == distance_to(prev_pos, f)
        speed == IF nonempty THEN derive_speed(prev_pos, f) ELSE f.speed
        position == [id |-> adds + 1, latitude |-> f.latitude,
                     longitude |-> f.longitude, timestamp |-> f.timestamp,
                     speed |-> speed]
        stored == deque_append(positions, max_positions, position)
    IN  /\ adds < MaxAdds
        /\ adds' = adds + 1
        /\ positions' = stored
        /\ model_stats' =
             [total_received |-> model_stats.total_received + 1,
              total_distance |-> IF nonempty
                                 THEN model_stats.total_distance + distance
                                 ELSE model_stats.total_distance,
              average_speed |-> update_average_speed(stored, position,
                                                     model_stats.average_speed)]
        /\ added' = Append(added, position)
        /\ notified' = notify_observers(observers, position, raising)
        /\ UNCHANGED <<max_positions, observers, threadVars, breakerVars, clientVars, netVars>>

\* A clear that also drops the observers.
Clear_DropObservers ==
    /\ positions' = <<>>
    /\ model_stats' = [model_stats EXCEPT !.total_distance = 0,
                                          !.average_speed = Rat(0, 1)]
    /\ added' = <<>>
    /\ observers' = <<>>
    /\ UNCHANGED <<max_positions, notified, adds, threadVars, breakerVars, clientVars, netVars>>

\* GPSDataModel.clear
Clear ==
    /\ positions' = <<>>
    /\ model_stats' = [model_stats EXCEPT !.total_distance = 0,
                                          !.average_speed = Rat(0, 1)]
    /\ added' = <<>>
    /\ UNCHANGED <<max_positions, observers, notified, adds, threadVars, breakerVars,
                   clientVars, netVars>>

Registered == {observers[i] : i \in 1..Len(observers)}
IsRegistered(o) == o \in Registered

\* A register_observer that appends the callback without looking for it.
RegisterObserver_Append(o) ==
    /\ observers' = Append(observers, o)
    /\ UNCHANGED <<max_positions, positions, model_stats, added, notified, adds,
                   threadVars, breakerVars, clientVars, netVars>>

\* GPSDataModel.register_observer
RegisterObserver(o) ==
    /\ observers' = IF IsRegistered(o) THEN observers ELSE Append(observers, o)
    /\ UNCHANGED <<max_positions, positions, model_stats, added, notified, adds,
                   threadVars, breakerVars, clientVars, netVars>>

\* GPSDataModel.unregister_observer
UnregisterObserver(o) ==
    /\ observers' = SelectSeq(observers, LAMBDA x : x # o)
    /\ UNCHANGED <<max_positions, positions, model_stats, added, notified, adds,
                   threadVars, breakerVars, clientVars, netVars>>

\* GPSDataModel.get_positions(count), called by a thread that no other
\* thread interleaves with.
GetPositions(count) ==
    /\ last_call' = [op |-> "get_positions", count |-> count,
                     result |-> get_positions(positions, count)]
    /\ UNCHANGED <<max_positions, positions, observers, model_stats, added, notified,
                   adds, threadVars, breakerVars, clientVars, netVars>>

\* The same methods with the call recorded in last_call.
CallAddPosition(f) ==
    /\ AddPosition(f, {})
    /\ last_call' = [op |-> "add_position", position |-> f]

CallClear ==
    /\ Clear
    /\ last_call' = [op |-> "clear"]

CallRegisterObserver(o) ==
    /\ RegisterObserver(o)
    /\ last_call' = [op |-> "register_observer", callback |-> o,
                     known |-> IsRegistered(o)]

CallUnregisterObserver(o) ==
    /\ UnregisterObserver(o)
    /\ last_call' = [op |-> "unregister_observer", callback |-> o,
                     known |-> IsRegistered(o)]

\* ------------------------------------- GPSDataModel, concurrent threads
\* add_position statement by statement, as the threads of Threads execute
\* it: a thread can be preempted between any two steps. Observer o1 calls
\* get_statistics itself; every other observer starts a helper thread that
\* calls get_statistics and waits for it to finish.
QueryingObservers == {"o1"}

\* The fixes the threads add.
ThreadFixes ==
    {[latitude |-> 0, longitude |-> 0, timestamp |-> 0, speed |-> NoSpeed],
     [latitude |-> 1, longitude |-> 0, timestamp |-> 2, speed |-> NoSpeed]}

\* The positions of a thread from the call of add_position to the end of
\* its with block.
InsideWith == {"acquire", "measure", "append", "count", "release"}

\* Thread t calls add_position(f) and reaches `with self._lock`.
ThreadAddPosition(t, f) ==
    /\ tpc[t] = "idle"
    /\ adds < MaxAdds
    /\ adds' = adds + 1
    /\ local' = [local EXCEPT ![t] =
                    [position |-> [id |-> adds + 1, latitude |-> f.latitude,
                                   longitude |-> f.longitude,
                                   timestamp |-> f.timestamp, speed |-> f.speed],
                     received |-> 0,
                     pending |-> <<>>]]
    /\ tpc' = [tpc EXCEPT ![t] = "acquire"]
    /\ overlapped' = (overlapped \/ \E u \in Threads \ {t} : tpc[u] \in InsideWith)
    /\ UNCHANGED <<max_positions, positions, observers, model_stats, added, notified,
                   last_call, lock, helper, breakerVars, clientVars, netVars>>

\* `with self._lock` is entered.
ThreadAcquire(t) ==
    /\ tpc[t] = "acquire"
    /\ can_acquire(lock, t)
    /\ lock' = acquire(lock, t)
    /\ tpc' = [tpc EXCEPT ![t] = "measure"]
    /\ UNCHANGED <<max_positions, positions, observers, model_stats, added, notified,
                   adds, last_call, local, helper, overlapped, breakerVars, clientVars, netVars>>

\* The distance to the last stored fix is added to total_distance and the
\* speed is derived.
ThreadMeasure(t) ==
    LET position == local[t].position
        prev_pos == last_position(positions)
    IN  /\ tpc[t] = "measure"
        /\ IF Len(positions) > 0
           THEN /\ model_stats' =
                     [model_stats EXCEPT
                         !.total_distance = @ + distance_to(prev_pos, position)]
                /\ local' = [local EXCEPT
                                ![t].position.speed = derive_speed(prev_pos, position)]
           ELSE UNCHANGED <<model_stats, local>>
        /\ tpc' = [tpc EXCEPT ![t] = "append"]
        /\ UNCHANGED <<max_positions, positions, observers, added, notified, adds,
                       last_call, lock, helper, overlapped, breakerVars, clientVars, netVars>>

\* self._positions.append(position); total_received is read for += 1.
ThreadAppend(t) ==
    /\ tpc[t] = "append"
    /\ positions' = deque_append(positions, max_positions, local[t].position)
    /\ added' = Append(added, local[t].position)
    /\ local' = [local EXCEPT ![t].received = model_stats.total_received]
    /\ tpc' = [tpc EXCEPT ![t] = "count"]
    /\ UNCHANGED <<max_positions, observers, model_stats, notified, adds, last_call,
                   lock, helper, overlapped, breakerVars, clientVars, netVars>>

\* total_received is written back and average_speed is updated.
ThreadCount(t) ==
    /\ tpc[t] = "count"
    /\ model_stats' =
         [model_stats EXCEPT
             !.total_received = local[t].received + 1,
             !.average_speed = update_average_speed(positions, local[t].position, @)]
    /\ tpc' = [tpc EXCEPT ![t] = "release"]
    /\ UNCHANGED <<max_positions, positions, observers, added, notified, adds,
                   last_call, lock, local, helper, overlapped, breakerVars, clientVars, netVars>>

\* The with block ends; _notify_observers is called.
ThreadRelease(t) ==
    /\ tpc[t] = "release"
    /\ lock' = release(lock, t)
    /\ tpc' = [tpc EXCEPT ![t] = "copy"]
    /\ UNCHANGED <<max_positions, positions, observers, model_stats, added, notified,
                   adds, last_call, local, helper, overlapped, breakerVars, clientVars, netVars>>

\* _notify_observers copies the observer list under the lock.
ThreadCopyObservers(t) ==
    /\ tpc[t] = "copy"
    /\ can_acquire(lock, t)
    /\ lock' = release(acquire(lock, t), t)
    /\ local' = [local EXCEPT ![t].pending = observers]
    /\ tpc' = [tpc EXCEPT ![t] = "iterate"]
    /\ UNCHANGED <<max_positions, positions, observers, model_stats, added, notified,
                   adds, last_call, helper, overlapped, breakerVars, clientVars, netVars>>

\* The next observer of the copy is called.
ThreadCallObserver(t) ==
    /\ tpc[t] = "iterate"
    /\ local[t].pending # <<>>
    /\ tpc' = [tpc EXCEPT ![t] = "observer"]
    /\ UNCHANGED <<max_positions, positions, observers, model_stats, added, notified,
                   adds, last_call, lock, local, helper, overlapped, breakerVars,
                   clientVars, netVars>>

\* The running observer calls get_statistics and returns.
ObserverQueries(t) ==
    /\ tpc[t] = "observer"
    /\ Head(local[t].pending) \in QueryingObservers
    /\ can_acquire(lock, t)
    /\ lock' = release(acquire(lock, t), t)
    /\ local' = [local EXCEPT ![t].pending = Tail(@)]
    /\ tpc' = [tpc EXCEPT ![t] = "iterate"]
    /\ UNCHANGED <<max_positions, positions, observers, model_stats, added, notified,
                   adds, last_call, helper, overlapped, breakerVars, clientVars, netVars>>

\* The running observer starts its helper thread and waits for it.
ObserverDelegates(t) ==
    /\ tpc[t] = "observer"
    /\ Head(local[t].pending) \notin QueryingObservers
    /\ helper' = [helper EXCEPT ![t] = "started"]
    /\ tpc' = [tpc EXCEPT ![t] = "join"]
    /\ UNCHANGED <<max_positions, positions, observers, model_stats, added, notified,
                   adds, last_call, lock, local, overlapped, breakerVars, clientVars, netVars>>

\* The helper thread calls get_statistics and finishes.
HelperQueries(t) ==
    /\ helper[t] = "started"
    /\ can_acquire(lock, HelperOf(t))
    /\ lock' = release(acquire(lock, HelperOf(t)), HelperOf(t))
    /\ helper' = [helper EXCEPT ![t] = "finished"]
    /\ UNCHANGED <<max_positions, positions, observers, model_stats, added, notified,
                   adds, last_call, tpc, local, overlapped, breakerVars, clientVars, netVars>>

\* The helper thread has finished; the observer returns.
ObserverJoins(t) ==
    /\ tpc[t] = "join"
    /\ helper[t] = "finished"
    /\ helper' = [helper EXCEPT ![t] = "idle"]
    /\ local' = [local EXCEPT ![t].pending = Tail(@)]
    /\ tpc' = [tpc EXCEPT ![t] = "iterate"]
    /\ UNCHANGED <<max_positions, positions, observers, model_stats, added, notified,
                   adds, last_call, lock, overlapped, breakerVars, clientVars, netVars>>

\* Every observer of the copy has been called; add_position returns.
ThreadReturn(t) ==
    /\ tpc[t] = "iterate"
    /\ local[t].pending = <<>>
    /\ local' = [local EXCEPT ![t] = NoLocal]
    /\ tpc' = [tpc EXCEPT ![t] = "idle"]
    /\ UNCHANGED <<max_positions, positions, observers, model_stats, added, notified,
                   adds, last_call, lock, helper, overlapped, breakerVars, clientVars, netVars>>

\* The main thread registers an observer while the others run.
ThreadRegisterObserver(o) ==
    /\ can_acquire(lock, MainThread)
    /\ RegisterObserver(o)
    /\ UNCHANGED last_call

\* A step of a call in progress in thread t, or of its helper thread.
ThreadStep(t) ==
    \/ ThreadAcquire(t)
    \/ ThreadMeasure(t)
    \/ ThreadAppend(t)
    \/ ThreadCount(t)
    \/ ThreadRelease(t)
    \/ ThreadCopyObservers(t)
    \/ ThreadCallObserver(t)
    \/ ObserverQueries(t)
    \/ ObserverDelegates(t)
    \/ HelperQueries(t)
    \/ ObserverJoins(t)
    \/ ThreadReturn(t)

\* -------------------------------------------------------- NMEAValidator
\* NMEAValidator._validate_position_data for a parsed sentence whose
\* latitude and longitude are numbers, in degrees.
validate_position_data(parsed) ==
    /\ -90 <= parsed.latitude /\ parsed.latitude <= 90
    /\ -180 <= parsed.longitude /\ parsed.longitude <= 180

\* ------------------------------------------------------------ characters
\* A str is a sequence of one-character strings.  The characters with the
\* codes 32..126, in code order; GRAVE stands for the grave accent, code 96.
Printable ==
    <<
      " ", "!", "\"", "#", "$", "%", "&", "'", "(", ")", "*", "+",
      ",", "-", ".", "/", "0", "1", "2", "3", "4", "5", "6", "7",
      "8", "9", ":", ";", "<", "=", ">", "?", "@", "A", "B", "C",
      "D", "E", "F", "G", "H", "I", "J", "K", "L", "M", "N", "O",
      "P", "Q", "R", "S", "T", "U", "V", "W", "X", "Y", "Z", "[",
      "\\", "]", "^", "_", "GRAVE", "a", "b", "c", "d", "e", "f", "g",
      "h", "i", "j", "k", "l", "m", "n", "o", "p", "q", "r", "s",
      "t", "u", "v", "w", "x", "y", "z", "{", "|", "}", "~" >>

\* chr() on the codes of the printable and the whitespace characters.
Chr(code) ==
    CASE code = 9 -> "\t"
      [] code = 10 -> "\n"
      [] code = 13 -> "\r"
      [] OTHER -> Printable[code - 31]

\* ord()
Ord(c) == CHOOSE code \in {9, 10, 13} \cup 32..126 : Chr(code) = c

\* str.upper()
Upper(s) ==
    [i \in 1..Len(s) |-> IF Ord(s[i]) \in 97..122 THEN Chr(Ord(s[i]) - 32) ELSE s[i]]

\* str.strip()
RECURSIVE Strip(_)
Strip(s) ==
    LET isspace(c) == c \in {" ", "\t", "\n", "\r"}
    IN  IF s = <<>> THEN s
        ELSE IF isspace(s[1]) THEN Strip(Tail(s))
        ELSE IF isspace(s[Len(s)]) THEN Strip(SubSeq(s, 1, Len(s) - 1))
        ELSE s

\* str.split(sep) for a one-character separator: the pieces between the
\* separators, in order.
RECURSIVE Split(_, _)
Split(s, sep) ==
    IF \A i \in 1..Len(s) : s[i] # sep THEN <<s>>
    ELSE LET k == CHOOSE i \in 1..Len(s) :
                    s[i] = sep /\ \A j \in 1..(i - 1) : s[j] # sep
         IN  <<SubSeq(s, 1, k - 1)>> \o Split(SubSeq(s, k + 1, Len(s)), sep)

HexDigits == <<"0", "1", "2", "3", "4", "5", "6", "7", "8", "9",
               "A", "B", "C", "D", "E", "F">>

\* f"{n:0{width}d}" for n >= 0: decimal, zero-padded to the width.
RECURSIVE Decimal(_, _)
Decimal(n, width) ==
    IF n < 10 /\ width <= 1 THEN <<HexDigits[n + 1]>>
    ELSE Decimal(n \div 10, width - 1) \o <<HexDigits[(n % 10) + 1]>>

\* f"{x:0{width}.{places}f}" for x given as an integer count of units of
\* 1/(10 * 10^places): x is rounded to the nearest 10^-places, a tie to
\* even, as float formatting rounds, and the integer part is zero-padded
\* to the width that is left.
FormatFixed(x, places, width) ==
    LET magnitude == IF x < 0 THEN -x ELSE x
        quotient == magnitude \div 10
        twice == 2 * (magnitude % 10)
        rounded == IF twice > 10 \/ (twice = 10 /\ quotient % 2 = 1)
                   THEN quotient + 1 ELSE quotient
    IN  (IF x < 0 THEN <<"-">> ELSE <<>>)
        \o Decimal(rounded \div 10^places, width - places - 1)
        \o <<".">> \o Decimal(rounded % 10^places, places)

\* ------------------------------------------------- NMEAValidator, strings
\* checksum ^= ord(char) over the characters of a string: bit k of the
\* result is set when an odd number of the codes have it set.
XorCodes(s) ==
    LET parity(k) == Cardinality({i \in 1..Len(s) : (Ord(s[i]) \div 2^k) % 2 = 1}) % 2
    IN  parity(0) + 2 * parity(1) + 4 * parity(2) + 8 * parity(3)
            + 16 * parity(4) + 32 * parity(5) + 64 * parity(6) + 128 * parity(7)

\* A checksum that ORs the character codes.
calculate_checksum_Or(sentence) ==
    LET any(k) == IF \E i \in 1..Len(sentence) : (Ord(sentence[i]) \div 2^k) % 2 = 1
                  THEN 1 ELSE 0
        checksum == any(0) + 2 * any(1) + 4 * any(2) + 8 * any(3)
                        + 16 * any(4) + 32 * any(5) + 64 * any(6) + 128 * any(7)
    IN  <<HexDigits[(checksum \div 16) + 1], HexDigits[(checksum % 16) + 1]>>
\* NMEAValidator.calculate_checksum
calculate_checksum(sentence) ==
    LET checksum == XorCodes(sentence)
    IN  <<HexDigits[(checksum \div 16) + 1], HexDigits[(checksum % 16) + 1]>>

\* A validate_checksum that keeps the leading '$' in the checksummed text.
validate_checksum_KeepDollar(nmea_string) ==
    IF \A i \in 1..Len(nmea_string) : nmea_string[i] # "*" THEN FALSE
    ELSE LET parts == Split(nmea_string, "*")
         IN  IF Len(parts) # 2 THEN FALSE
             ELSE Upper(calculate_checksum(parts[1])) = Upper(parts[2])
\* NMEAValidator.validate_checksum.  The two-name unpacking of the split
\* raises ValueError unless there are exactly two pieces.
validate_checksum(nmea_string) ==
    IF \A i \in 1..Len(nmea_string) : nmea_string[i] # "*" THEN FALSE
    ELSE LET parts == Split(nmea_string, "*")
         IN  IF Len(parts) # 2 THEN FALSE
             ELSE LET provided_checksum == parts[2]
                      sentence == IF parts[1] # <<>> /\ parts[1][1] = "$"
                                  THEN Tail(parts[1]) ELSE parts[1]
                      calculated_checksum == calculate_checksum(sentence)
                  IN  Upper(calculated_checksum) = Upper(provided_checksum)

\* NMEAValidator.validate_format: NMEA_PATTERN, with re.IGNORECASE, matched
\* against the stripped string.
validate_format(nmea_string) ==
    LET s == Upper(Strip(nmea_string))
        IsHexDigit(c) == \E i \in 1..16 : HexDigits[i] = c
    IN  /\ Len(s) >= 10
        /\ s[1] = "$"
        /\ \A i \in 2..6 : Ord(s[i]) \in 65..90
        /\ s[7] = ","
        /\ \A i \in 8..(Len(s) - 3) : s[i] # "*"
        /\ s[Len(s) - 2] = "*"
        /\ IsHexDigit(s[Len(s) - 1]) /\ IsHexDigit(s[Len(s)])

\* NMEAValidator.is_valid_nmea with check_checksum=True.
is_valid_nmea(nmea_string) ==
    IF ~validate_format(nmea_string) THEN FALSE
    ELSE validate_checksum(nmea_string)

\* An Optional[str] is a sequence: <<>> for None, <<value>> for a value.
\* NMEAValidator.get_sentence_type: the slice [1:7], uppercased, of a
\* string that starts with '$', and None for any other string.
get_sentence_type(nmea_string) ==
    IF nmea_string # <<>> /\ nmea_string[1] = "$"
    THEN <<Upper(SubSeq(nmea_string, 2, IF Len(nmea_string) < 7
                                        THEN Len(nmea_string) ELSE 7))>>
    ELSE <<>>

\* NMEAValidator.SUPPORTED_SENTENCES
SUPPORTED_SENTENCES ==
    { <<"G", "P", "R", "M", "C">>, <<"G", "P", "G", "G", "A">>,
      <<"G", "P", "G", "L", "L">>, <<"G", "P", "G", "S", "A">>,
      <<"G", "P", "G", "S", "V">>, <<"G", "P", "V", "T", "G">> }

\* NMEAValidator.is_supported_sentence
is_supported_sentence(nmea_string) ==
    LET sentence_type == get_sentence_type(nmea_string)
    IN  sentence_type # <<>> /\ sentence_type[1] \in SUPPORTED_SENTENCES

\* What pynmea2.parse and the reading of the position can do with a string:
\* return a sentence without latitude and longitude attributes, return one
\* whose position is in range, out of range or None, raise ParseError, or
\* raise another exception.
ParseOutcomes ==
    {"parsed", "position_in_range", "position_out_of_range", "position_none",
     "ParseError", "Exception"}

\* safe_parse whose only handler is "except pynmea2.ParseError".
safe_parse_OnlyParseError(nmea_string, validate, parse) ==
    IF validate /\ ~is_valid_nmea(nmea_string) THEN [raised |-> None, value |-> <<>>]
    ELSE IF parse = "Exception" THEN [raised |-> "Exception", value |-> <<>>]
    ELSE IF parse \in {"ParseError", "position_out_of_range", "position_none"}
         THEN [raised |-> None, value |-> <<>>]
    ELSE [raised |-> None, value |-> <<Strip(nmea_string)>>]

\* NMEAValidator.safe_parse: the exception that leaves the call, and the
\* value returned: None, or the sentence parsed from the stripped string.
safe_parse(nmea_string, validate, parse) ==
    LET try == IF validate /\ ~is_valid_nmea(nmea_string)
               THEN [raised |-> None, value |-> <<>>]
               ELSE IF parse \in {"ParseError", "Exception"}
                    THEN [raised |-> parse, value |-> <<>>]
               ELSE IF parse \in {"position_out_of_range", "position_none"}
                    THEN [raised |-> None, value |-> <<>>]
               ELSE [raised |-> None, value |-> <<Strip(nmea_string)>>]
    IN  IF try.raised \in {"ParseError", "Exception"}
        THEN [raised |-> None, value |-> <<>>]
        ELSE try

\* --------------------------------------------------------- NMEAGenerator
\* The text generate_rmc builds between '$' and '*'.  latitude and
\* longitude are in 1/6000000 of a degree (1/100000 of a minute), speed and
\* course in hundredths, timestamp is [hour, minute, second, microsecond],
\* date is [day, month, year].
rmc_sentence(latitude, longitude, timestamp, speed, course, date) ==
    LET lat_deg == Abs(latitude) \div 6000000
        lat_min == Abs(latitude) % 6000000
        lat_nmea == Decimal(lat_deg, 2) \o FormatFixed(lat_min, 4, 7)
        lat_dir == IF latitude >= 0 THEN "N" ELSE "S"
        lon_deg == Abs(longitude) \div 6000000
        lon_min == Abs(longitude) % 6000000
        lon_nmea == Decimal(lon_deg, 3) \o FormatFixed(lon_min, 4, 7)
        lon_dir == IF longitude >= 0 THEN "E" ELSE "W"
        time_str == SubSeq(Decimal(timestamp.hour, 2) \o Decimal(timestamp.minute, 2)
                           \o Decimal(timestamp.second, 2) \o <<".">>
                           \o Decimal(timestamp.microsecond, 6), 1, 9)
        date_str == Decimal(date.day, 2) \o Decimal(date.month, 2)
                    \o Decimal(date.year % 100, 2)
    IN  <<"G", "P", "R", "M", "C", ",">> \o time_str \o <<",", "A", ",">>
        \o lat_nmea \o <<",", lat_dir, ",">> \o lon_nmea
        \o <<",", lon_dir, ",">> \o FormatFixed(speed, 1, 3) \o <<",">>
        \o FormatFixed(course, 1, 3) \o <<",">> \o date_str \o <<",", ",", "A">>

\* A generate_rmc that checksums the text with its leading '$'.
generate_rmc_ChecksumWithDollar(latitude, longitude, timestamp, speed, course, date) ==
    LET sentence == rmc_sentence(latitude, longitude, timestamp, speed, course, date)
        checksum == calculate_checksum(<<"$">> \o sentence)
    IN  <<"$">> \o sentence \o <<"*">> \o checksum
\* NMEAGenerator.generate_rmc
generate_rmc(latitude, longitude, timestamp, speed, course, date) ==
    LET sentence == rmc_sentence(latitude, longitude, timestamp, speed, course, date)
        checksum == calculate_checksum(sentence)
    IN  <<"$">> \o sentence \o <<"*">> \o checksum

\* ------------------------------------------------- calls of the NMEA codec
\* The RMC sentence of the validator's tests, with a checksum.
RmcSentence(checksum) ==
    <<"$">> \o
    << "G", "P", "R", "M", "C", ",", "1", "2", "3", "4", "5", "6", ".", "0", "0", ",",
       "A", ",", "4", "8", "0", "7", ".", "4", "0", "4", ",", "N", ",", "0", "1", "1",
       "3", "1", ".", "3", "2", "4", ",", "E", ",", "0", ".", "0", ",", "0", ".", "0",
       ",", "1", "9", "1", "1", "2", "4", ",", ",", ",", "A" >>
    \o <<"*">> \o checksum

\* The sentences the validator is called with: every string of at most
\* MaxSentenceLen characters over a small alphabet, the RMC sentence of the
\* validator's tests with three checksums, and strings made of a '$' or
\* none, a sentence type, and nothing more or a payload with its checksum.
Sentences ==
    LET Alphabet == {"$", "*", "J", "4", "A", "a"}
        SentenceTypes ==
            SUPPORTED_SENTENCES
                \cup { <<"G", "P", "Z", "D", "A">>, <<"g", "p", "r", "m", "c">> }
        Checksummed(sentence) == sentence \o <<"*">> \o calculate_checksum(sentence)
    IN  UNION {[1..n -> Alphabet] : n \in 0..MaxSentenceLen}
        \cup {RmcSentence(checksum) :
                 checksum \in {<<"6", "C">>, <<"5", "B">>, <<"F", "F">>}}
        \cup { prefix \o text :
                 prefix \in {<<>>, <<"$">>},
                 text \in UNION { {type, Checksummed(type \o <<",">>),
                                         Checksummed(type \o <<",", "1">>)} :
                                   type \in SentenceTypes } }

\* The arguments generate_rmc is called with: the ends of the ranges,
\* values next to them that round up to a full minute, and values inside.
RmcArguments ==
    [latitude : {-540000000, -539999999, -3000000, 0, 288740400, 540000000},
     longitude : {-1080000000, -1079999996, 0, 69132600, 1080000000},
     timestamp : { [hour |-> 0, minute |-> 0, second |-> 0, microsecond |-> 0],
                   [hour |-> 12, minute |-> 34, second |-> 56, microsecond |-> 789999],
                   [hour |-> 23, minute |-> 59, second |-> 59, microsecond |-> 999999] },
     speed : {-4, 0, 15, 1235},
     course : {0, 725, 35996},
     date : { [day |-> 19, month |-> 11, year |-> 2024],
              [day |-> 1, month |-> 1, year |-> 2000],
              [day |-> 31, month |-> 12, year |-> 1999] }]

\* Each action is one call on the string, or the arguments, the caller
\* holds, and records the call with its result.
ValidateChecksum ==
    /\ codec.op = "str"
    /\ codec' = [op |-> "validate_checksum", nmea_string |-> codec.nmea_string,
                 result |-> validate_checksum(codec.nmea_string)]
    /\ UNCHANGED <<receiver, rloop, delivered, sender, storeVars, breakerVars, clientVars>>

IsValidNmea ==
    /\ codec.op = "str"
    /\ codec' = [op |-> "is_valid_nmea", nmea_string |-> codec.nmea_string,
                 result |-> is_valid_nmea(codec.nmea_string)]
    /\ UNCHANGED <<receiver, rloop, delivered, sender, storeVars, breakerVars, clientVars>>

GetSentenceType ==
    /\ codec.op = "str"
    /\ codec' = [op |-> "get_sentence_type", nmea_string |-> codec.nmea_string,
                 result |-> get_sentence_type(codec.nmea_string)]
    /\ UNCHANGED <<receiver, rloop, delivered, sender, storeVars, breakerVars, clientVars>>

IsSupportedSentence ==
    /\ codec.op = "str"
    /\ codec' = [op |-> "is_supported_sentence", nmea_string |-> codec.nmea_string,
                 result |-> is_supported_sentence(codec.nmea_string)]
    /\ UNCHANGED <<receiver, rloop, delivered, sender, storeVars, breakerVars, clientVars>>

\* parse is what the decoder does when it is called: it is not called for a
\* string that fails the validation asked for.
SafeParse(validate, parse) ==
    /\ codec.op = "str"
    /\ parse = "not called" <=> (validate /\ ~is_valid_nmea(codec.nmea_string))
    /\ LET returned == safe_parse(codec.nmea_string, validate, parse)
       IN  codec' = [op |-> "safe_parse", nmea_string |-> codec.nmea_string,
                     validate |-> validate, parse |-> parse,
                     raised |-> returned.raised, result |-> returned.value]
    /\ UNCHANGED <<receiver, rloop, delivered, sender, storeVars, breakerVars, clientVars>>

GenerateRmc ==
    /\ codec.op = "position"
    /\ LET a == codec.arguments
       IN  codec' = [op |-> "generate_rmc", arguments |-> a,
                     result |-> generate_rmc(a.latitude, a.longitude, a.timestamp,
                                             a.speed, a.course, a.date)]
    /\ UNCHANGED <<receiver, rloop, delivered, sender, storeVars, breakerVars, clientVars>>

\* ------------------------------------------------------------ Coordinate
\* A decimal_degrees is an integer count of 1/6000000 of a degree, which is
\* 1/100000 of a minute of arc.
\* float(s) for a string of digits with at most one '.' and at most four
\* digits after it, in 1/10000; <<>> when float raises ValueError.
ParseFloat(s) ==
    LET digits == {"0", "1", "2", "3", "4", "5", "6", "7", "8", "9"}
        dots == {i \in 1..Len(s) : s[i] = "."}
        k == IF dots = {} THEN Len(s) + 1 ELSE CHOOSE i \in dots : TRUE
        whole == SubSeq(s, 1, k - 1)
        fraction == SubSeq(s, k + 1, Len(s))
        number[i \in 0..Len(s)] ==
            IF i = 0 THEN 0
            ELSE IF i = k THEN number[i - 1]
            ELSE number[i - 1] * 10 + (Ord(s[i]) - 48)
    IN  IF \/ Cardinality(dots) > 1
           \/ Len(whole) + Len(fraction) = 0
           \/ Len(fraction) > 4
           \/ \E i \in 1..Len(s) : i \notin dots /\ s[i] \notin digits
        THEN <<>>
        ELSE <<number[Len(s)] * 10^(4 - Len(fraction))>>

\* Coordinate(decimal_degrees, hemisphere): __post_init__ runs _validate,
\* which raises CoordinateError or leaves the new object.
Coordinate(decimal_degrees, hemisphere) ==
    LET abs_value == Abs(decimal_degrees)
        raises == IF hemisphere \in {"N", "S"} THEN abs_value > 90 * 6000000
                  ELSE IF hemisphere \in {"E", "W"} THEN abs_value > 180 * 6000000
                  ELSE TRUE
    IN  IF raises THEN [raised |-> "CoordinateError"]
        ELSE [raised |-> None, decimal_degrees |-> decimal_degrees,
              hemisphere |-> hemisphere]

\* Coordinate.signed_decimal
signed_decimal(self) ==
    IF self.hemisphere \in {"S", "W"} THEN -Abs(self.decimal_degrees)
    ELSE Abs(self.decimal_degrees)

\* A from_nmea that divides the minutes by 100.
from_nmea_MinutesAsHundredths(nmea_value, direction) ==
    LET value == ParseFloat(nmea_value)
    IN  IF value = <<>> THEN [raised |-> "CoordinateError"]
        ELSE LET degrees == value[1] \div 1000000
                 minutes == value[1] - (degrees * 1000000)
             IN  Coordinate(degrees * 6000000 + minutes * 6, direction)

\* Coordinate.from_nmea: degrees = int(value / 100), the rest are minutes.
from_nmea(nmea_value, direction) ==
    LET value == ParseFloat(nmea_value)
    IN  IF value = <<>> THEN [raised |-> "CoordinateError"]
        ELSE LET degrees == value[1] \div 1000000
                 minutes == value[1] - (degrees * 1000000)
             IN  Coordinate(degrees * 6000000 + minutes * 10, direction)

\* Coordinate.to_nmea_string: degrees_minutes, degrees * 100 + minutes, in
\* 1/100000, formatted as 07.4f or 08.4f.
to_nmea_string(self, lat_format) ==
    LET abs_val == Abs(self.decimal_degrees)
        degrees_minutes == (abs_val \div 6000000) * 10000000 + (abs_val % 6000000)
    IN  FormatFixed(degrees_minutes, 4, IF lat_format THEN 7 ELSE 8)

\* The arguments Coordinate is constructed with: the ends of the ranges,
\* values next to them, values below 10 and 100 degrees, negative values
\* and a hemisphere that is none of the four.
CoordinateArguments ==
    [decimal_degrees : {0, 3000000, 33000000, 59999999, 60000000, 288740400,
                        540000000, 540000001, 594000000, 600000000, 740736000,
                        1080000000, 1080000001, -270000000, -546000000},
     hemisphere : {"N", "S", "E", "W", "X"}]

\* The strings from_nmea is called with: DDMM.MMMM and DDDMM.MMMM, the
\* strings of the repository's test, minutes of 60 and more, and strings
\* that are no number.
NmeaValues ==
    { Decimal(d, 2) \o Decimal(m, 2) \o <<".">> \o Decimal(f, 4) :
          d \in {0, 5, 48, 89, 90}, m \in {0, 7, 59}, f \in {0, 4040, 9999} }
    \cup { Decimal(d, 3) \o Decimal(m, 2) \o <<".">> \o Decimal(f, 4) :
          d \in {0, 11, 99, 123, 180}, m \in {0, 31, 59}, f \in {0, 3240, 9999} }
    \cup { <<"4", "8", "0", "7", ".", "4", "0", "4">>,
           <<"0", "1", "1", "3", "1", ".", "3", "2", "4">>,
           <<"4", "8", "7", "5", ".", "0", "0", "0", "0">>,
           <<"4", "8", "0", "7", ".", "4", "O", "4">>, <<>>, <<".">> }

\* Each action is one call; codec holds the arguments before it and the
\* object or the result after it.  made is the Coordinate a constructor
\* call left, or the exception it raised.
Construct ==
    /\ codec.op = "Coordinate()"
    /\ codec' = [op |-> "Coordinate", from |-> codec, assigned |-> FALSE,
                 made |-> Coordinate(codec.decimal_degrees, codec.hemisphere)]
    /\ UNCHANGED <<receiver, rloop, delivered, sender, storeVars, breakerVars, clientVars>>

FromNmea ==
    /\ codec.op = "from_nmea()"
    /\ codec' = [op |-> "Coordinate", from |-> codec, assigned |-> FALSE,
                 made |-> from_nmea(codec.nmea_value, codec.direction)]
    /\ UNCHANGED <<receiver, rloop, delivered, sender, storeVars, breakerVars, clientVars>>

\* self.decimal_degrees = value on an existing Coordinate: the dataclass is
\* not frozen and _validate runs in __post_init__ only.
SetDecimalDegrees(value) ==
    /\ codec.op = "Coordinate" /\ codec.made.raised = None /\ ~codec.assigned
    /\ codec' = [codec EXCEPT !.made.decimal_degrees = value, !.assigned = TRUE]
    /\ UNCHANGED <<receiver, rloop, delivered, sender, storeVars, breakerVars, clientVars>>

ToNmeaString(lat_format) ==
    /\ codec.op = "Coordinate" /\ codec.made.raised = None
    /\ codec' = [op |-> "to_nmea_string", from |-> codec.from,
                 assigned |-> codec.assigned, self |-> codec.made,
                 lat_format |-> lat_format,
                 result |-> to_nmea_string(codec.made, lat_format)]
    /\ UNCHANGED <<receiver, rloop, delivered, sender, storeVars, breakerVars, clientVars>>

\* ---------------------------------------------------- Haversine distance
\* Position.from_decimal for lat and lon in degrees.
from_decimal(lat, lon) ==
    [latitude |-> Coordinate(Abs(lat) * 6000000, IF lat >= 0 THEN "N" ELSE "S"),
     longitude |-> Coordinate(Abs(lon) * 6000000, IF lon >= 0 THEN "E" ELSE "W")]

\* A Haversine formula that takes the cosine of lat1 twice.
haversine_OneCosine(lat1, lon1, lat2, lon2) ==
    LET dlat == lat2 - lat1
        dlon == lon2 - lon1
        sin_squared(x) == <<0, 1, 3, 4, 3, 1, 0, 1, 3, 4, 3, 1>>[((x % 360) \div 30) + 1]
        cos(x) == <<2, 1, -1, -2, -1, 1>>[((x % 360) \div 60) + 1]
        a == 4 * sin_squared(dlat \div 2) + cos(lat1) * cos(lat1) * sin_squared(dlon \div 2)
    IN  << 0, 50536, 72273, 89566, 104720, 118640, 131812, 144547, 157080, 169612,
           182348, 195519, 209440, 224593, 241886, 263623, 314159 >>[a + 1]

\* The formula both distance_to methods compute, for latitudes and
\* longitudes in degrees that are multiples of 60, where it is exact in
\* small integers: math.sin(x) ** 2 in quarters for x a multiple of 30,
\* math.cos(x) in halves for x a multiple of 60, so a in sixteenths; the
\* result is c = 2 * atan2(sqrt(a), sqrt(1 - a)) in 1/100000 of a radian.
haversine(lat1, lon1, lat2, lon2) ==
    LET dlat == lat2 - lat1
        dlon == lon2 - lon1
        sin_squared(x) == <<0, 1, 3, 4, 3, 1, 0, 1, 3, 4, 3, 1>>[((x % 360) \div 30) + 1]
        cos(x) == <<2, 1, -1, -2, -1, 1>>[((x % 360) \div 60) + 1]
        a == 4 * sin_squared(dlat \div 2) + cos(lat1) * cos(lat2) * sin_squared(dlon \div 2)
    IN  << 0, 50536, 72273, 89566, 104720, 118640, 131812, 144547, 157080, 169612,
           182348, 195519, 209440, 224593, 241886, 263623, 314159 >>[a + 1]

\* Position.distance_to: R * c with R = 6371.0, in 1/100000 of a
\* kilometre.
Position_distance_to(self, other) ==
    6371 * haversine(signed_decimal(self.latitude) \div 6000000,
                     signed_decimal(self.longitude) \div 6000000,
                     signed_decimal(other.latitude) \div 6000000,
                     signed_decimal(other.longitude) \div 6000000)

\* GPSPosition.distance_to for any two points of the grid: R * c with
\* R = 6371000, in 1/100 of a meter.
GPSPosition_distance_to(self, other) ==
    (6371000 \div 1000) * haversine(self.latitude, self.longitude,
                                    other.latitude, other.longitude)

\* The points distance_to is called on, in degrees.
GridPoints == [latitude : {-60, 0, 60}, longitude : {-120, -60, 0, 60, 120, 180}]

PositionDistanceTo ==
    /\ codec.op = "points"
    /\ LET self == from_decimal(codec.self.latitude, codec.self.longitude)
           other == from_decimal(codec.other.latitude, codec.other.longitude)
       IN  codec' = [op |-> "Position.distance_to", self |-> self, other |-> other,
                     result |-> Position_distance_to(self, other)]
    /\ UNCHANGED <<receiver, rloop, delivered, sender, storeVars, breakerVars, clientVars>>

GPSPositionDistanceTo ==
    /\ codec.op = "points"
    /\ codec' = [op |-> "GPSPosition.distance_to", self |-> codec.self,
                 other |-> codec.other,
                 result |-> GPSPosition_distance_to(codec.self, codec.other)]
    /\ UNCHANGED <<receiver, rloop, delivered, sender, storeVars, breakerVars, clientVars>>

\* ---------------------------------------------------------------- GPSTrack
\* The positions of a track are points of one meridian with the latitude
\* in tenths of a degree, so distance_to, and with it every distance of a
\* track, is in tenths of a meter.
TrackPositions == [latitude : {480, 481, 482}, longitude : {110}]

\* GPSTrack.get_total_distance
RECURSIVE get_total_distance(_)
get_total_distance(track) ==
    IF Len(track) < 2 THEN 0
    ELSE get_total_distance(SubSeq(track, 1, Len(track) - 1))
         + distance_to(track[Len(track) - 1], track[Len(track)])

\* GPSTrack.add_position
TrackAddPosition(position) ==
    /\ codec.op = "GPSTrack" /\ Len(codec.positions) < MaxTrackLen
    /\ codec' = [codec EXCEPT !.positions = Append(@, position)]
    /\ UNCHANGED <<receiver, rloop, delivered, sender, storeVars, breakerVars, clientVars>>

TrackGetTotalDistance ==
    /\ codec.op = "GPSTrack"
    /\ codec' = [op |-> "get_total_distance", positions |-> codec.positions,
                 result |-> get_total_distance(codec.positions)]
    /\ UNCHANGED <<receiver, rloop, delivered, sender, storeVars, breakerVars, clientVars>>

\* ----------------------------------------------------- AsyncNMEAReceiver
\* NetworkStats()
NetworkStatsInit ==
    [packets_received |-> 0, packets_dropped |-> 0, bytes_received |-> 0, errors |-> 0]

\* AsyncNMEAReceiver.__init__
AsyncNMEAReceiverInit ==
    [socket |-> None, is_running |-> FALSE, callbacks |-> <<>>,
     stats |-> NetworkStatsInit]

\* The locals of receive_loop with no datagram at hand.  registered is the
\* callback list as it was when the current datagram was received.
NoDatagram == [nmea_str |-> <<>>, addr |-> None, index |-> 0, registered |-> <<>>]

\* The callbacks an application registers, the addresses datagrams come
\* from, and the datagrams: a sentence, one with surrounding whitespace,
\* and a byte that is not UTF-8.
Callbacks == {"c1", "c2"}
Addresses == {"peer"}
Datagrams == { <<71>>, <<32, 71, 13, 10>>, <<255>> }

\* What a callback can do with a datagram: return, or raise.
CallbackOutcomes == {"returns", "Exception", "BlockingIOError", "UnicodeDecodeError"}

\* bytes.decode('utf-8') on bytes that are ASCII or stand alone above it:
\* whether it succeeds, and the text.
is_utf8(data) == \A i \in 1..Len(data) : data[i] < 128
decode(data) == [i \in 1..Len(data) |-> Chr(data[i])]

\* AsyncNMEAReceiver.stop
stop(r) ==
    [r EXCEPT !.is_running = FALSE,
              !.socket = IF @ = None THEN None ELSE "closed"]

\* The end of an iteration of receive_loop: the while condition is read,
\* and the loop awaits the next datagram or ends, and the finally clause
\* of start() awaits stop().
Continue(r, l) ==
    IF r.is_running
    THEN receiver' = r /\ rloop' = [l EXCEPT !.pc = "recv"]
    ELSE receiver' = stop(r) /\ rloop' = [l EXCEPT !.pc = "done"]

\* AsyncNMEAReceiver.register_callback
RegisterCallback(callback) ==
    /\ Len(receiver.callbacks) < MaxCallbacks
    /\ receiver' = [receiver EXCEPT !.callbacks = Append(@, callback)]
    /\ UNCHANGED <<rloop, delivered, codec, sender, storeVars, breakerVars, clientVars>>

\* AsyncNMEAReceiver.start up to the first await of sock_recvfrom.
StartBinds ==
    /\ rloop.pc = "new"
    /\ receiver' = [receiver EXCEPT !.is_running = TRUE, !.socket = "open"]
    /\ rloop' = [rloop EXCEPT !.pc = "recv"]
    /\ UNCHANGED <<delivered, codec, sender, storeVars, breakerVars, clientVars>>

\* AsyncNMEAReceiver.start when socket.socket() (created = FALSE) or the
\* setup of the created socket raises: the error is counted and the
\* finally clause awaits stop().
StartFails(created) ==
    /\ rloop.pc = "new"
    /\ receiver' = stop([receiver EXCEPT !.is_running = TRUE,
                                         !.socket = IF created THEN "open" ELSE None,
                                         !.stats.errors = @ + 1])
    /\ rloop' = [rloop EXCEPT !.pc = "done", !.event = "start_failed"]
    /\ UNCHANGED <<delivered, codec, sender, storeVars, breakerVars, clientVars>>

\* A receive loop that takes the next datagram while the callbacks of the
\* last one are still being called.
DatagramArrives_WhileCallbacksRun(data, addr) ==
    /\ rloop.pc \in {"recv", "callbacks"}
    /\ receiver.socket = "open"
    /\ receiver.stats.packets_received < MaxDatagrams
    /\ LET counted == [receiver EXCEPT !.stats.packets_received = @ + 1,
                                       !.stats.bytes_received = @ + Len(data)]
       IN  IF ~is_utf8(data)
           THEN /\ Continue([counted EXCEPT !.stats.errors = @ + 1],
                            [pc |-> rloop.pc, event |-> "undecodable"] @@ NoDatagram)
                /\ delivered' = <<>>
           ELSE LET started == [rloop EXCEPT !.nmea_str = Strip(decode(data)),
                                             !.addr = addr,
                                             !.index = 1,
                                             !.registered = counted.callbacks,
                                             !.event = "decoded"]
                IN  /\ delivered' = <<>>
                    /\ IF counted.callbacks = <<>>
                       THEN Continue(counted, started)
                       ELSE receiver' = counted /\ rloop' = [started EXCEPT !.pc = "callbacks"]
    /\ UNCHANGED <<codec, sender, storeVars, breakerVars, clientVars>>

\* sock_recvfrom returns a datagram: the statistics, the decoding, and,
\* where there are callbacks, the start of the for loop over them.
DatagramArrives(data, addr) ==
    /\ rloop.pc = "recv"
    /\ receiver.socket = "open"
    /\ receiver.stats.packets_received < MaxDatagrams
    /\ LET counted == [receiver EXCEPT !.stats.packets_received = @ + 1,
                                       !.stats.bytes_received = @ + Len(data)]
       IN  IF ~is_utf8(data)
           THEN /\ Continue([counted EXCEPT !.stats.errors = @ + 1],
                            [pc |-> rloop.pc, event |-> "undecodable"] @@ NoDatagram)
                /\ delivered' = <<>>
           ELSE LET started == [rloop EXCEPT !.nmea_str = Strip(decode(data)),
                                             !.addr = addr,
                                             !.index = 1,
                                             !.registered = counted.callbacks,
                                             !.event = "decoded"]
                IN  /\ delivered' = <<>>
                    /\ IF counted.callbacks = <<>>
                       THEN Continue(counted, started)
                       ELSE receiver' = counted /\ rloop' = [started EXCEPT !.pc = "callbacks"]
    /\ UNCHANGED <<codec, sender, storeVars, breakerVars, clientVars>>

\* One pass of the for loop: the next callback is invoked, or awaited, with
\* the text and the address, and returns or raises.
InvokeCallback(does) ==
    /\ rloop.pc = "callbacks"
    /\ delivered' = Append(delivered, [callback |-> receiver.callbacks[rloop.index],
                                       text |-> rloop.nmea_str,
                                       addr |-> rloop.addr])
    /\ CASE does = "returns" ->
              IF rloop.index < Len(receiver.callbacks)
              THEN /\ rloop' = [rloop EXCEPT !.index = @ + 1, !.event = "returned"]
                   /\ UNCHANGED receiver
              ELSE Continue(receiver, [rloop EXCEPT !.event = "returned"])
         [] does = "UnicodeDecodeError" ->
              Continue([receiver EXCEPT !.stats.errors = @ + 1],
                       [rloop EXCEPT !.event = does])
         [] does = "BlockingIOError" ->
              /\ rloop' = [rloop EXCEPT !.pc = "sleep", !.event = does]
              /\ UNCHANGED receiver
         [] does = "Exception" ->
              /\ rloop' = [rloop EXCEPT !.pc = "sleep", !.event = does]
              /\ receiver' = [receiver EXCEPT !.stats.errors = @ + 1]
    /\ UNCHANGED <<codec, sender, storeVars, breakerVars, clientVars>>

\* The asyncio.sleep of an except clause of receive_loop ends.
WakeReceiver ==
    /\ rloop.pc = "sleep"
    /\ Continue(receiver, rloop)
    /\ UNCHANGED <<delivered, codec, sender, storeVars, breakerVars, clientVars>>

\* Another task awaits stop().
Stop ==
    /\ receiver' = stop(receiver)
    /\ UNCHANGED <<rloop, delivered, codec, sender, storeVars, breakerVars, clientVars>>

\* The sock_recvfrom that was pending when the socket was closed raises
\* OSError.  Whether it does is the event loop's choice: the selector
\* loop leaves the future pending.
PendingRecvFails ==
    /\ rloop.pc = "recv"
    /\ receiver.socket = "closed"
    /\ receiver' = [receiver EXCEPT !.stats.errors = @ + 1]
    /\ rloop' = [rloop EXCEPT !.pc = "sleep", !.event = "OSError"]
    /\ UNCHANGED <<delivered, codec, sender, storeVars, breakerVars, clientVars>>

\* A step of the coroutine that needs nothing from outside it.
LoopStep ==
    \/ \E does \in CallbackOutcomes : InvokeCallback(does)
    \/ WakeReceiver

\* ------------------------------------------------------- AsyncNMEASender
\* The messages handed to send_message.
Messages == { <<"G">>, <<"G", "P">> }

\* AsyncNMEASender.send_message awaited by execute_with_retry as its
\* operation, the datagram sent: the statistics, and True returned.
SendMessageSucceeds(t, message) ==
    /\ OperationReturns(t, TRUE)
    /\ sender' = [sender EXCEPT !.stats.packets_received = @ + 1,
                                !.stats.bytes_received = @ + Len(message)]

\* The same with the transport failing: the except clause of send_message
\* counts the error and returns False.
SendMessageFails(t) ==
    /\ OperationReturns(t, FALSE)
    /\ sender' = [sender EXCEPT !.stats.errors = @ + 1]

\* AsyncNMEAReceiver.__init__ and AsyncNMEASender.__init__, the coroutine
\* of start() not yet run; and with these, no codec call made.
ReceiverInit ==
    /\ receiver = AsyncNMEAReceiverInit
    /\ rloop = [pc |-> "new", event |-> "none"] @@ NoDatagram
    /\ delivered = <<>>
    /\ sender = [stats |-> NetworkStatsInit]

NetInit == ReceiverInit /\ codec = NoCall


\* ------------------------------------------------------ specifications
DefaultRetryConfig ==
    [max_retries |-> 1, initial_delay_ms |-> 1, max_delay_ms |-> 2,
     exponential_base |-> 2, jitter_enabled |-> FALSE]

DefaultCircuitConfig ==
    [failure_threshold |-> 1, recovery_timeout_ms |-> 2, half_open_max_requests |-> 1]

\* ResilientNetworkClient.__init__ with the given configurations.
ClientInit(rc, cc) ==
    /\ now = 0
    /\ circuit_breaker = CircuitBreakerInit(cc, 0)
    /\ retry_config = rc
    /\ stats = RetryStatsInit
    /\ pc = [t \in Tasks |-> "idle"]
    /\ attempt = [t \in Tasks |-> 0]
    /\ last_error = [t \in Tasks |-> None]
    /\ wake_at = [t \in Tasks |-> 0]
    /\ outcome = [t \in Tasks |-> [kind |-> "pending"]]
    /\ op_log = [t \in Tasks |-> <<>>]
    /\ recorded = [t \in Tasks |-> [success |-> 0, failure |-> 0]]
    /\ slept = [t \in Tasks |-> <<>>]
    /\ calls = 0
    /\ streak = 0
    /\ admitted = 0
    /\ last_attempt = [ok |-> TRUE, waiting |-> FALSE]
    /\ backoff = [attempt |-> 0, delay |-> 0]

vars == <<now, circuit_breaker, streak, admitted, last_attempt, retry_config, stats,
          pc, attempt, last_error, wake_at, outcome, op_log, recorded, slept, calls,
          backoff, max_positions, positions, observers, model_stats, added, notified,
          adds, last_call, lock, tpc, local, helper, overlapped, receiver, rloop,
          delivered, sender, codec>>

\* A CircuitBreaker whose methods are called directly, in any order.
InitBreaker ==
    \E cc \in CircuitBreakerConfigs :
        ClientInit(DefaultRetryConfig, cc) /\ StoreInit(1) /\ NetInit

DirectRecordSuccess ==
    /\ BreakerRecordSuccess
    /\ UNCHANGED <<now, clientVars, storeVars, netVars>>

DirectRecordFailure ==
    /\ circuit_breaker.failure_count < MaxFailureCount
    /\ BreakerRecordFailure
    /\ UNCHANGED <<now, clientVars, storeVars, netVars>>

DirectCanAttempt ==
    /\ admitted < MaxAdmitted
    /\ BreakerCanAttempt
    /\ UNCHANGED <<now, clientVars, storeVars, netVars>>

TickBreaker == Tick /\ UNCHANGED <<clientVars, storeVars, netVars>>

NextBreaker ==
    \/ DirectRecordSuccess
    \/ DirectRecordFailure
    \/ DirectCanAttempt
    \/ TickBreaker

SpecBreaker == InitBreaker /\ [][NextBreaker]_vars

\* Tasks of one event loop calling execute_with_retry on one client.
InitClient ==
    \E rc \in RetryConfigs, cc \in CircuitBreakerConfigs :
        ClientInit(rc, cc) /\ StoreInit(1) /\ NetInit

NextClient ==
    \/ \E t \in Tasks : Call(t)
    \/ \E t \in Tasks, v \in OperationResults :
         OperationReturns(t, v) /\ UNCHANGED sender
    \/ \E t \in Tasks, e \in OperationErrors : OperationRaises(t, e)
    \/ \E t \in Tasks : Wake(t)
    \/ TickBreaker

SpecClient == InitClient /\ [][NextClient]_vars

\* _calculate_backoff alone, for every attempt index under a range of
\* retry configurations.
BackoffConfigs ==
    [max_retries : {MaxAttemptIndex + 2},
     initial_delay_ms : {10, 100},
     max_delay_ms : {100, 250},
     exponential_base : {2, 3},
     jitter_enabled : BOOLEAN]

InitBackoff ==
    \E rc \in BackoffConfigs : ClientInit(rc, DefaultCircuitConfig) /\ StoreInit(1) /\ NetInit

CalculateBackoff(n) ==
    /\ \E delay \in calculate_backoff(retry_config, n) :
          backoff' = [attempt |-> n, delay |-> delay]
    /\ UNCHANGED <<breakerVars, retry_config, stats, pc, attempt, last_error, wake_at,
                   outcome, op_log, recorded, slept, calls, storeVars, netVars>>

NextBackoff == \E n \in 0..MaxAttemptIndex : CalculateBackoff(n)

SpecBackoff == InitBackoff /\ [][NextBackoff]_vars

\* One task calling execute_with_retry again and again, each call awaited
\* before the next.
NextSequential ==
    \/ Call("t1")
    \/ \E v \in OperationResults : OperationReturns("t1", v) /\ UNCHANGED sender
    \/ \E e \in OperationErrors : OperationRaises("t1", e)
    \/ Wake("t1")
    \/ TickBreaker

SpecSequential == InitClient /\ [][NextSequential]_vars

\* A GPSDataModel whose methods are called by one thread, in any order.
InitStore ==
    \E capacity \in 1..MaxCapacity :
        ClientInit(DefaultRetryConfig, DefaultCircuitConfig) /\ StoreInit(capacity) /\ NetInit

NextStore ==
    \/ \E f \in Fixes, raising \in SUBSET Registered :
          AddPosition(f, raising) /\ UNCHANGED last_call
    \/ Clear /\ UNCHANGED last_call
    \/ \E o \in Observers : RegisterObserver(o) /\ UNCHANGED last_call
    \/ \E o \in Observers : UnregisterObserver(o) /\ UNCHANGED last_call

SpecStore == InitStore /\ [][NextStore]_vars

\* The arguments get_positions is called with.
Counts == {NoCount, 0, 1, 2, 3}

\* A GPSDataModel whose methods are called by one thread, in any order,
\* each call recorded; no observer raises.

NextCalls ==
    \/ \E f \in Fixes : CallAddPosition(f)
    \/ CallClear
    \/ \E o \in Observers : CallRegisterObserver(o)
    \/ \E o \in Observers : CallUnregisterObserver(o)

SpecCalls == InitStore /\ [][NextCalls]_vars

\* The same, with get_positions called between the other calls.
NextQuery ==
    \/ NextCalls
    \/ \E count \in Counts : GetPositions(count)

SpecQuery == InitStore /\ [][NextQuery]_vars

\* A GPSDataModel given GPSPosition objects of any latitude and longitude.
\* The fixes off the meridian of longitude 0 are at a pole, where the
\* Haversine distance is again the arc length of the latitude difference.
RangeFixes ==
    {[latitude |-> c[1], longitude |-> c[2], timestamp |-> ts, speed |-> NoSpeed] :
        c \in {<<0, 0>>, <<91, 0>>, <<-91, 0>>, <<90, 181>>, <<90, -181>>},
        ts \in {0, 2}}

NextRange ==
    \/ \E f \in RangeFixes : AddPosition(f, {}) /\ UNCHANGED last_call
    \/ Clear /\ UNCHANGED last_call

SpecRange == InitStore /\ [][NextRange]_vars

\* Threads calling add_position on one GPSDataModel concurrently.
NextThreads ==
    \/ \E t \in Threads, f \in ThreadFixes : ThreadAddPosition(t, f)
    \/ \E t \in Threads : ThreadStep(t)
    \/ \E o \in Observers : ThreadRegisterObserver(o)

SpecThreads == InitStore /\ [][NextThreads]_vars

\* An AsyncNMEAReceiver: callbacks are registered, start() runs as a task,
\* datagrams arrive, and another task may await stop().  The coroutine
\* takes its own steps sooner or later: a callback returns or raises, a
\* sleep ends.  Nothing makes a datagram arrive or a pending receive fail.
InitReceiver ==
    ClientInit(DefaultRetryConfig, DefaultCircuitConfig) /\ StoreInit(1) /\ NetInit

NextReceiver ==
    \/ \E callback \in Callbacks : RegisterCallback(callback)
    \/ StartBinds
    \/ \E created \in BOOLEAN : StartFails(created)
    \/ \E data \in Datagrams, addr \in Addresses : DatagramArrives(data, addr)
    \/ \E does \in CallbackOutcomes : InvokeCallback(does)
    \/ WakeReceiver
    \/ Stop
    \/ PendingRecvFails

SpecReceiver == InitReceiver /\ [][NextReceiver]_vars /\ WF_vars(LoopStep)


\* One task sending through AsyncNMEASender.send_message, each send run
\* by execute_with_retry.
NextSend ==
    \/ Call("t1")
    \/ \E message \in Messages : SendMessageSucceeds("t1", message)
    \/ SendMessageFails("t1")
    \/ TickBreaker

SpecSend == InitClient /\ [][NextSend]_vars

\* One task calling execute_with_retry while the receiver is started and
\* stopped: is_running is the liveness flag of the program, set by start()
\* and cleared by stop().
NextCancel ==
    \/ Call("t1")
    \/ \E v \in OperationResults : OperationReturns("t1", v) /\ UNCHANGED sender
    \/ \E e \in OperationErrors : OperationRaises("t1", e)
    \/ Wake("t1")
    \/ TickBreaker
    \/ StartBinds
    \/ Stop

SpecCancel == InitClient /\ [][NextCancel]_vars

\* One call of the NMEA validator or generator on each input: the caller
\* holds a string, or the arguments of generate_rmc.
InitCodec ==
    /\ ClientInit(DefaultRetryConfig, DefaultCircuitConfig) /\ StoreInit(1) /\ ReceiverInit
    /\ \/ \E nmea_string \in Sentences :
              codec = [op |-> "str", nmea_string |-> nmea_string]
       \/ \E arguments \in RmcArguments :
              codec = [op |-> "position", arguments |-> arguments]

NextCodec ==
    \/ ValidateChecksum
    \/ IsValidNmea
    \/ GetSentenceType
    \/ IsSupportedSentence
    \/ \E validate \in BOOLEAN, parse \in ParseOutcomes \cup {"not called"} :
           SafeParse(validate, parse)
    \/ GenerateRmc

SpecCodec == InitCodec /\ [][NextCodec]_vars

\* One call of the coordinate and distance code on each input.
InitGeodesy ==
    /\ ClientInit(DefaultRetryConfig, DefaultCircuitConfig) /\ StoreInit(1) /\ ReceiverInit
    /\ \/ \E arguments \in CoordinateArguments :
              codec = [op |-> "Coordinate()",
                       decimal_degrees |-> arguments.decimal_degrees,
                       hemisphere |-> arguments.hemisphere]
       \/ \E nmea_value \in NmeaValues, direction \in {"N", "S", "E", "W"} :
              codec = [op |-> "from_nmea()", nmea_value |-> nmea_value,
                       direction |-> direction]
       \/ \E self \in GridPoints, other \in GridPoints :
              codec = [op |-> "points", self |-> self, other |-> other]
       \/ codec = [op |-> "GPSTrack", positions |-> <<>>]

NextGeodesy ==
    \/ Construct
    \/ FromNmea
    \/ \E value \in {0, 33000000, 1200000000} : SetDecimalDegrees(value)
    \/ \E lat_format \in BOOLEAN : ToNmeaString(lat_format)
    \/ PositionDistanceTo
    \/ GPSPositionDistanceTo
    \/ \E position \in TrackPositions : TrackAddPosition(position)
    \/ TrackGetTotalDistance

SpecGeodesy == InitGeodesy /\ [][NextGeodesy]_vars

\* ------------------------------------------------------------- claims
Threshold == circuit_breaker.config.failure_threshold

\* A step that records a failure on the breaker.
FailureStep == streak' = streak + 1
\* A step in which task t invokes the operation.
InvocationStep(t) == pc[t] # "operation" /\ pc'[t] = "operation"

\* The last n entries of sequence q (all of it when n >= Len(q)).
LastN(q, n) == SubSeq(q, Len(q) - Min(n, Len(q)) + 1, Len(q))

\* C1: the number of stored fixes never exceeds the capacity, and
\* get_positions() is exactly the last min(k, capacity) of the k fixes added
\* since the most recent clear, in insertion order.
C1_BoundedHistoryKeepsNewest ==
    /\ Len(positions) <= max_positions
    /\ get_positions(positions, NoCount) = LastN(added, max_positions)

\* C1 witness: more fixes were added than the capacity of 2 holds, so the
\* oldest was evicted.
C1_Witness ==
    /\ max_positions = 2
    /\ Len(added) = 3
    /\ positions = <<added[2], added[3]>>

\* C2: from Closed, the failure that makes failure_threshold failures in a
\* row (no success in between) opens the breaker at that moment, and every
\* can_attempt call made while the breaker is Open and recovery_timeout_ms
\* has not elapsed since it opened answers False.
C2_OpensAtThresholdAndRejects ==
    [][/\ (circuit_breaker.state = "closed" /\ FailureStep /\ streak' >= Threshold)
            => (circuit_breaker'.state = "open"
                /\ circuit_breaker'.last_state_change = now)
       /\ (circuit_breaker'.state = "closed" => streak' < Threshold)
       /\ (last_attempt'.waiting => ~last_attempt'.ok)]_vars

\* C2 witness: two failures in a row opened a breaker of threshold 2, and a
\* can_attempt call made before the timeout elapsed was answered False.
C2_Witness ==
    /\ Threshold = 2
    /\ circuit_breaker.state = "open"
    /\ streak = 2
    /\ circuit_breaker.failure_count = 2
    /\ last_attempt.waiting
    /\ ~last_attempt.ok

\* C3: no attempt of execute_with_retry, a second or later attempt of one
\* retry loop included, invokes the operation while the breaker is Open and
\* recovery_timeout_ms has not elapsed since it opened.
C3_NoInvocationWhileOpen ==
    [][\A t \in Tasks :
          InvocationStep(t) => ~OpenAndWaiting(circuit_breaker', now')]_vars

\* C4: in HalfOpen a recorded failure that brings failure_count to
\* failure_threshold opens the breaker and records the transition time, as
\* it does in Closed.
C4_HalfOpenFailureReopens ==
    [][(circuit_breaker.state = "half_open" /\ FailureStep
           /\ circuit_breaker'.failure_count >= Threshold)
         => (circuit_breaker'.state = "open"
             /\ circuit_breaker'.last_state_change = now)]_vars

\* C5: during one HalfOpen period can_attempt admits at most
\* half_open_max_requests calls, concurrent callers included.
C5_HalfOpenAdmitsAtMostMax ==
    circuit_breaker.state = "half_open"
        => admitted <= circuit_breaker.config.half_open_max_requests

\* C6: the state changes only Closed->Open (threshold reached), Open->HalfOpen
\* (timeout elapsed, failure_count reset to 0), HalfOpen->Closed (a success)
\* or HalfOpen->Open (a failure), and every change sets last_state_change to
\* the time of the change.
C6_TransitionsAllowed ==
    [][circuit_breaker'.state # circuit_breaker.state =>
         /\ circuit_breaker'.last_state_change = now
         /\ \/ /\ circuit_breaker.state = "closed"
               /\ circuit_breaker'.state = "open"
               /\ FailureStep
               /\ circuit_breaker'.failure_count >= Threshold
            \/ /\ circuit_breaker.state = "open"
               /\ circuit_breaker'.state = "half_open"
               /\ now - circuit_breaker.last_state_change
                      >= circuit_breaker.config.recovery_timeout_ms
               /\ circuit_breaker'.failure_count = 0
            \/ /\ circuit_breaker.state = "half_open"
               /\ circuit_breaker'.state = "closed"
               /\ streak' = 0
            \/ /\ circuit_breaker.state = "half_open"
               /\ circuit_breaker'.state = "open"
               /\ FailureStep]_vars

\* C6 witness: the breaker is Closed again after a whole cycle through Open
\* and HalfOpen, and has recorded one failure since.
C6_Witness ==
    /\ circuit_breaker.state = "closed"
    /\ circuit_breaker.last_state_change >= circuit_breaker.config.recovery_timeout_ms
    /\ circuit_breaker.last_state_change < now
    /\ streak = 1

\* C7: a call the breaker rejects invokes the operation zero times and
\* sleeps zero times, and the error it raises differs from every error a
\* call propagates after its retries are exhausted.
C7_RejectedImmediatelyAndDistinct ==
    \A t \in Tasks :
        pc[t] = "rejected" =>
            /\ op_log[t] = <<>>
            /\ slept[t] = <<>>
            /\ \A u \in Tasks : pc[u] = "raised" => outcome[u] # outcome[t]

\* C8: a call whose attempts all fail has invoked the operation exactly
\* max_retries times, recorded one breaker failure per attempt and raises
\* the error of the final attempt; a call whose attempt k succeeds has
\* invoked the operation exactly k times, recorded a breaker success and
\* returns that attempt's result.
C8_RetryOutcome ==
    \A t \in Tasks :
        LET log == op_log[t]
            k == Len(log)
        IN  /\ pc[t] = "raised" =>
                /\ k = retry_config.max_retries
                /\ \A i \in 1..k : log[i].kind = "raise"
                /\ recorded[t] = [success |-> 0, failure |-> k]
                /\ outcome[t] = log[k]
            /\ pc[t] = "returned" =>
                /\ k \in 1..retry_config.max_retries
                /\ \A i \in 1..(k - 1) : log[i].kind = "raise"
                /\ log[k].kind = "return"
                /\ recorded[t] = [success |-> 1, failure |-> k - 1]
                /\ outcome[t] = log[k]

\* C8 witness: a call with max_retries = 2 failed twice, with two different
\* errors, and raised.
C8_Witness ==
    /\ retry_config.max_retries = 2
    /\ pc["t1"] = "raised"
    /\ Len(op_log["t1"]) = 2
    /\ op_log["t1"][1] # op_log["t1"][2]

\* C9: every delay _calculate_backoff returns, and execute_with_retry then
\* sleeps, is at most max_delay_ms, with jitter enabled or disabled.
C9_DelayAtMostMax == backoff.delay <= retry_config.max_delay_ms

\* A step that completes an add_position call.
AddStep == adds' = adds + 1

\* C10: an add_position call invokes every observer registered at that time
\* exactly once with the added fix, in registration order, whether or not
\* an earlier observer raised; the fix is stored and counted all the same.
C10_EveryObserverNotifiedInOrder ==
    [][AddStep =>
         /\ Len(notified') = Len(observers)
         /\ \A i \in 1..Len(observers) :
               /\ notified'[i].observer = observers[i]
               /\ notified'[i].position = added'[Len(added')]
               /\ \A j \in 1..Len(observers) : observers[j] = observers[i] => j = i
         /\ positions'[Len(positions')] = added'[Len(added')]
         /\ model_stats'.total_received = model_stats.total_received + 1]_vars

\* C10 witness: the first of two observers raised and the second was called
\* after it with the fix that was stored.
C10_Witness ==
    /\ Len(notified) = 2
    /\ notified[1].raised
    /\ ~notified[2].raised
    /\ notified[2].observer # notified[1].observer
    /\ positions # <<>>
    /\ notified[2].position = positions[Len(positions)]

\* The threads whose call has yet to count its fix in total_received.
Uncounted == {t \in Threads : tpc[t] \in {"acquire", "measure", "append", "count"}}

\* C11: an observer runs only after its add_position call has appended the
\* fix and updated the statistics, and never while the calling thread owns
\* the lock; and as long as a call is in progress some thread can take a
\* step, whether the observer queries the store itself or waits for a
\* helper thread that does.
C11_ObserversRunOutsideLock ==
    /\ \A t \in Threads : tpc[t] \in {"observer", "join"} =>
          /\ lock.owner # t
          /\ \E i \in 1..Len(added) : added[i] = local[t].position
          /\ model_stats.total_received = adds - Cardinality(Uncounted)
    /\ (\E t \in Threads : tpc[t] # "idle") => \E t \in Threads : ENABLED ThreadStep(t)

\* C11 witness: the helper thread of a waiting observer has queried the
\* store, and the other thread is inside its with block, owning the lock.
C11_Witness ==
    \E t \in Threads :
        /\ tpc[t] = "join"
        /\ helper[t] = "finished"
        /\ lock.owner \in Threads \ {t}

\* C12: once every add_position call made by the threads has returned,
\* total_received is the number of calls and the history holds
\* min(number of calls, capacity) fixes.
C12_NoAddLost ==
    (\A t \in Threads : tpc[t] = "idle") =>
        /\ model_stats.total_received = adds
        /\ Len(positions) = Min(adds, max_positions)

\* C12 witness: three calls, two of them contending for the lock, have
\* returned and the history is full.
C12_Witness ==
    /\ \A t \in Threads : tpc[t] = "idle"
    /\ overlapped
    /\ adds = 3
    /\ Len(positions) = max_positions

\* The last entry of sequence q.
Last(q) == q[Len(q)]

\* C13: whenever at least one stored fix has a speed, average_speed is the
\* mean of the speeds of the stored fixes that have one, also after an add
\* that evicted a fix and after an add of a fix whose speed stayed absent.
C13_AverageIsMeanOfStored ==
    WithSpeed(positions) # <<>> =>
        model_stats.average_speed =
            RatDivInt(SumSpeeds(positions), Len(WithSpeed(positions)))

\* C14: add_position gives the fix a speed of its own only when the fix has
\* none, the history is non-empty and the timestamp is strictly later than
\* that of the last stored fix, and then the speed is distance / elapsed
\* seconds; otherwise the speed is left as given, so that no stored speed
\* is negative or has a zero divisor.
C14_SpeedDerivedOnlyForward ==
    [][last_call'.op = "add_position" =>
         LET f == last_call'.position
             elapsed == f.timestamp - Last(positions).timestamp
         IN  /\ Last(added').speed =
                   IF IsNone(f.speed) /\ positions # <<>> /\ elapsed > 0
                   THEN Rat(distance_to(Last(positions), f), elapsed)
                   ELSE f.speed
             /\ \A i \in 1..Len(positions') :
                   \/ IsNone(positions'[i].speed)
                   \/ positions'[i].speed.den > 0 /\ positions'[i].speed.num >= 0]_vars

\* C14 witness: three fixes given without speed; the second, later than the
\* first and away from it, got a speed, the third, not later than the
\* second, got none.
C14_Witness ==
    /\ last_call.op = "add_position"
    /\ IsNone(last_call.position.speed)
    /\ Len(added) = 3
    /\ ~IsNone(added[2].speed)
    /\ added[2].speed.num > 0
    /\ added[2].speed # Rat(3, 1)
    /\ added[3].timestamp <= added[2].timestamp
    /\ IsNone(added[3].speed)

\* The length of the path through the fixes of q, in order.
RECURSIVE PathLength(_)
PathLength(q) ==
    IF Len(q) < 2 THEN 0 ELSE distance_to(q[1], q[2]) + PathLength(Tail(q))

\* C15: as long as clear has not been called, total_received is the number
\* of add_position calls and total_distance is the sum of the distances
\* from each added fix to the one added before it, evicted or not.
C15_TotalsOverAllAdds ==
    Len(added) = adds =>
        /\ model_stats.total_received = adds
        /\ model_stats.total_distance = PathLength(added)

\* C15 witness: three fixes were added to a history of capacity one, each
\* one degree of latitude from the fix before, which it evicted.
C15_Witness ==
    /\ Len(added) = adds
    /\ adds = 3
    /\ max_positions = 1
    /\ model_stats.total_distance = 2 * MetersPerDegree

\* C16: get_positions(count) returns the min(count, stored) most recent
\* fixes, oldest first, for every count >= 0, and get_positions() returns
\* the whole history.
C16_MostRecentCount ==
    last_call.op = "get_positions" =>
        last_call.result =
            IF last_call.count = NoCount THEN positions
            ELSE LastN(positions, last_call.count)

\* C17: clear leaves the history empty, total_distance and average_speed
\* at 0 and the observer list as it was; every add_position, also after a
\* clear, calls each registered observer with the added fix; and the first
\* add_position after a clear leaves total_distance at 0.
C17_ClearKeepsObservers ==
    [][/\ last_call'.op = "clear" =>
             /\ positions' = <<>>
             /\ model_stats'.total_distance = 0
             /\ model_stats'.average_speed = Rat(0, 1)
             /\ observers' = observers
       /\ last_call'.op = "add_position" =>
             /\ Len(notified') = Len(observers)
             /\ \A i \in 1..Len(observers) :
                   /\ notified'[i].observer = observers[i]
                   /\ notified'[i].position = Last(added')
       /\ last_call.op = "clear" /\ last_call'.op = "add_position" =>
             model_stats'.total_distance = 0]_vars

\* C17 witness: a fix was added after a clear that followed an earlier
\* add; both registered observers were called with it and total_distance
\* is still 0.
C17_Witness ==
    /\ last_call.op = "add_position"
    /\ adds >= 2
    /\ Len(added) = 1
    /\ added[1].id = adds
    /\ Len(observers) = 2
    /\ Len(notified) = 2
    /\ notified[2].position = added[1]
    /\ model_stats.total_distance = 0

\* C18: after clear, total_received, total_distance and average_speed are
\* all 0, the history is empty and the observers are those registered
\* before.
C18_ClearResetsAllStatistics ==
    [][last_call'.op = "clear" =>
         /\ model_stats'.total_received = 0
         /\ model_stats'.total_distance = 0
         /\ model_stats'.average_speed = Rat(0, 1)
         /\ positions' = <<>>
         /\ observers' = observers]_vars

\* C19: register_observer of a registered callback and unregister_observer
\* of an unregistered one change nothing; a callback is never in the
\* observer list twice, and add_position calls it once.
C19_RegistrationIdempotent ==
    [][/\ last_call'.op = "register_observer" =>
             observers' = IF last_call'.callback \in Registered
                          THEN observers
                          ELSE Append(observers, last_call'.callback)
       /\ last_call'.op = "unregister_observer" =>
             /\ last_call'.callback \notin Registered => observers' = observers
             /\ \A i \in 1..Len(observers') : observers'[i] # last_call'.callback
       /\ \A i, j \in 1..Len(observers') : observers'[i] = observers'[j] => i = j
       /\ last_call'.op = "add_position" =>
             \A o \in Registered :
                 Cardinality({i \in 1..Len(notified') : notified'[i].observer = o}) = 1
      ]_vars

\* C19 witness: register_observer was called with a callback that was
\* registered already, and the callback is registered once.
C19_Witness ==
    /\ last_call.op = "register_observer"
    /\ last_call.known
    /\ observers = <<"o2", last_call.callback>>

\* C20: every fix in the history has a latitude in [-90, 90] and a
\* longitude in [-180, 180], the range _validate_position_data accepts.
C20_StoredFixesInRange ==
    \A i \in 1..Len(positions) : validate_position_data(positions[i])

\* The callback invocations the loop owes a decoded datagram: one for each
\* callback registered when it was received, in registration order, with
\* the text the loop decoded and the sender's address.
Owed ==
    [i \in 1..Len(rloop.registered) |->
        [callback |-> rloop.registered[i], text |-> rloop.nmea_str, addr |-> rloop.addr]]

\* The loop is through with a datagram that decoded.
Processed ==
    /\ rloop.pc # "callbacks"
    /\ rloop.event \in {"decoded"} \cup CallbackOutcomes

\* C21: when the receive loop is through with a datagram that decoded as
\* UTF-8, it has invoked every callback registered when the datagram was
\* received, once each and in registration order, with the decoded text
\* and the sender's address.
C21_EveryCallbackInvoked ==
    Processed =>
        /\ Len(delivered) >= Len(Owed)
        /\ SubSeq(delivered, 1, Len(Owed)) = Owed

\* A step in which a datagram is received and does not decode, and a step
\* in which a callback raises on the datagram it was given.
UndecodableStep ==
    rloop.pc = "recv" /\ rloop'.event = "undecodable"
        /\ receiver'.stats.packets_received = receiver.stats.packets_received + 1
CallbackFailsStep ==
    rloop.pc = "callbacks" /\ rloop'.event \in CallbackOutcomes \ {"returns"}

\* C22: while is_running is set, a datagram that does not decode, or on
\* which a callback raises, adds one to stats.errors and leaves the
\* receive loop running, and for a datagram that does not decode no
\* callback is invoked.
C22_BadDatagramCountedLoopGoesOn ==
    [][receiver.is_running /\ (UndecodableStep \/ CallbackFailsStep) =>
          /\ receiver'.stats.errors = receiver.stats.errors + 1
          /\ rloop'.pc \in {"recv", "sleep"}
          /\ (UndecodableStep => delivered' = <<>>)]_vars

\* stop() has been awaited while the coroutine of start() was running.
StoppedWhileRunning ==
    rloop.pc \in {"recv", "callbacks", "sleep"} /\ ~receiver.is_running

\* C23: after stop() is called on a running receiver, the receive loop
\* ends, though no further datagram arrives, and the socket is closed.
C23_StopEndsTheLoop ==
    StoppedWhileRunning ~> (rloop.pc = "done" /\ receiver.socket = "closed")

\* A step in which the transport fails under task t's send_message.
TransportFailsStep(t) ==
    pc[t] = "operation" /\ sender'.stats.errors = sender.stats.errors + 1

\* C25: when send_message, run through execute_with_retry, meets a
\* transport failure, the failure is recorded on the breaker and the send
\* is retried after a backoff sleep while attempts remain; the call fails,
\* with the last error, once they are used up, and never returns normally
\* from the failed attempt.
C25_TransportFailureRetried ==
    [][\A t \in Tasks :
          TransportFailsStep(t) =>
              /\ FailureStep
              /\ IF AttemptsRemain(retry_config, attempt[t])
                 THEN pc'[t] = "sleep"
                 ELSE outcome'[t].kind = "raise" /\ outcome'[t].error = last_error'[t]]_vars

\* The liveness flag has been set and cleared again.
FlagCleared == rloop.pc # "new" /\ ~receiver.is_running

\* A step in which task t starts a backoff sleep.
SleepStep(t) == pc[t] # "sleep" /\ pc'[t] = "sleep"

\* A step in which task t goes from a backoff sleep to its next attempt.
RetryStep(t) == pc[t] = "sleep" /\ pc'[t] = "operation"

\* C24: once the liveness flag is cleared, a call of execute_with_retry
\* in progress starts no further attempt and no further backoff sleep.
C24_NoAttemptAfterFlagCleared ==
    [][FlagCleared => \A t \in Tasks : ~RetryStep(t) /\ ~SleepStep(t)]_vars

\* C26: for every latitude in [-90, 90], longitude in [-180, 180],
\* timestamp, speed and course, the sentence generate_rmc returns starts
\* with $GPRMC and passes both validate_checksum and is_valid_nmea.
C26_GeneratedRmcIsValid ==
    codec.op = "generate_rmc" =>
        /\ SubSeq(codec.result, 1, 6) = <<"$", "G", "P", "R", "M", "C">>
        /\ validate_checksum(codec.result)
        /\ is_valid_nmea(codec.result)

\* A sentence generated for a southern latitude whose minutes round up to
\* 60.0000 and a negative speed.
C26_Witness ==
    /\ codec.op = "generate_rmc"
    /\ codec.arguments.latitude = -539999999
    /\ codec.arguments.speed < 0
    /\ SubSeq(codec.result, 19, 31) = <<",", "8", "9", "6", "0", ".", "0", "0", "0", "0", ",", "S", ",">>
    /\ is_valid_nmea(codec.result)

Stars(s) == {i \in 1..Len(s) : s[i] = "*"}
TwoHexDigits(n) == <<HexDigits[(n \div 16) + 1], HexDigits[(n % 16) + 1]>>

FiveAfterDollar(s) == Upper(SubSeq(s, 2, 6))
HasType(s) == Len(s) >= 6 /\ s[1] = "$"

\* C29: for a sentence that begins with '$', get_sentence_type returns
\* the five characters after the '$', uppercased; for a string that does
\* not begin with '$' it returns None.
C29_TypeIsFiveCharacters ==
    codec.op = "get_sentence_type" =>
        /\ HasType(codec.nmea_string) =>
               codec.result = <<FiveAfterDollar(codec.nmea_string)>>
        /\ (codec.nmea_string = <<>> \/ codec.nmea_string[1] # "$") => codec.result = <<>>

\* C30: is_supported_sentence(s) is true exactly when the five-letter
\* sentence type of s is one of GPRMC, GPGGA, GPGLL, GPGSA, GPGSV, GPVTG.
C30_SupportedExactlyWhen ==
    codec.op = "is_supported_sentence" =>
        (codec.result <=>
            /\ HasType(codec.nmea_string)
            /\ FiveAfterDollar(codec.nmea_string) \in SUPPORTED_SENTENCES)

\* C31: safe_parse never raises.  With validate=True it returns None
\* whenever the format check or the checksum check fails; with either
\* value of validate it returns None when the decoder fails and when the
\* decoded sentence has a latitude or longitude that is None or outside
\* [-90, 90] and [-180, 180].
C31_SafeParseNeverRaises ==
    codec.op = "safe_parse" =>
        /\ codec.raised = None
        /\ codec.validate /\ ~(validate_format(codec.nmea_string)
                                  /\ validate_checksum(codec.nmea_string))
               => codec.result = <<>>
        /\ codec.parse \in {"ParseError", "Exception", "position_none",
                            "position_out_of_range"} => codec.result = <<>>

\* Without validation, a well-formed sentence whose decoder raises
\* something other than ParseError: None is returned.
C31_Witness ==
    /\ codec.op = "safe_parse" /\ ~codec.validate
    /\ codec.nmea_string = RmcSentence(<<"5", "B">>)
    /\ codec.parse = "Exception"
    /\ codec.raised = None /\ codec.result = <<>>

\* The text of a sentence between its '$' and its last '*'.
BodyOf(s) ==
    LET k == CHOOSE i \in 1..Len(s) : s[i] = "*" /\ \A j \in (i + 1)..Len(s) : s[j] # "*"
    IN  SubSeq(s, 2, k - 1)

\* A string of digits with a '.' at position dot and nowhere else.
IsFixed(s, length, dot) ==
    /\ Len(s) = length
    /\ \A i \in 1..Len(s) :
           IF i = dot THEN s[i] = "."
           ELSE s[i] \in {"0", "1", "2", "3", "4", "5", "6", "7", "8", "9"}

\* C32: the body generate_rmc builds has exactly the comma-separated
\* fields GPRMC, time as hhmmss.ssssss, A, latitude as ddmm.mmmm, N or S,
\* longitude as dddmm.mmmm, E or W, speed, course, date as ddmmyy, an empty
\* field, an empty field, A, and the result is '$' + body + '*' +
\* checksum(body).
C32_RmcFields ==
    codec.op = "generate_rmc" =>
        LET body == BodyOf(codec.result)
            fields == Split(body, ",")
        IN  /\ Len(fields) = 13
            /\ fields[1] = <<"G", "P", "R", "M", "C">>
            /\ IsFixed(fields[2], 13, 7)
            /\ fields[3] = <<"A">>
            /\ IsFixed(fields[4], 9, 5)
            /\ fields[5] \in {<<"N">>, <<"S">>}
            /\ IsFixed(fields[6], 10, 6)
            /\ fields[7] \in {<<"E">>, <<"W">>}
            /\ fields[8] # <<>> /\ fields[9] # <<>>
            /\ IsFixed(fields[10], 6, 0)
            /\ fields[11] = <<>> /\ fields[12] = <<>>
            /\ fields[13] = <<"A">>
            /\ codec.result = <<"$">> \o body \o <<"*">> \o calculate_checksum(body)

\* The fields generate_rmc does emit: twelve, the time as hhmmss.ss and
\* one empty field before the final A.
C32_FieldsEmitted ==
    codec.op = "generate_rmc" =>
        LET body == BodyOf(codec.result)
            fields == Split(body, ",")
        IN  /\ Len(fields) = 12
            /\ fields[1] = <<"G", "P", "R", "M", "C">>
            /\ IsFixed(fields[2], 9, 7)
            /\ fields[3] = <<"A">>
            /\ IsFixed(fields[4], 9, 5)
            /\ fields[5] \in {<<"N">>, <<"S">>}
            /\ IsFixed(fields[6], 10, 6)
            /\ fields[7] \in {<<"E">>, <<"W">>}
            /\ IsFixed(fields[10], 6, 0)
            /\ fields[11] = <<>>
            /\ fields[12] = <<"A">>
            /\ codec.result = <<"$">> \o body \o <<"*">> \o calculate_checksum(body)

\* The bound the hemisphere puts on decimal_degrees.
InBound(decimal_degrees, hemisphere) ==
    /\ hemisphere \in {"N", "S", "E", "W"}
    /\ decimal_degrees >= 0
    /\ decimal_degrees <= (IF hemisphere \in {"N", "S"} THEN 90 ELSE 180) * 6000000

\* C33: constructing a Coordinate succeeds exactly when the hemisphere is
\* one of N, S, E, W and decimal_degrees is >= 0 and <= 90 for N/S or
\* <= 180 for E/W, and fails with CoordinateError otherwise; every
\* existing Coordinate satisfies this bound.
C33_ConstructionBound ==
    codec.op = "Coordinate" =>
        /\ ~codec.assigned /\ codec.from.op = "Coordinate()" =>
               /\ codec.made.raised = None
                      <=> InBound(codec.from.decimal_degrees, codec.from.hemisphere)
               /\ codec.made.raised \in {None, "CoordinateError"}
        /\ codec.made.raised = None =>
               InBound(codec.made.decimal_degrees, codec.made.hemisphere)

\* C33, second half alone: a Coordinate that exists satisfies the bound
\* in magnitude.
C33_ExistingInBound ==
    codec.op = "Coordinate" /\ codec.made.raised = None =>
        InBound(Abs(codec.made.decimal_degrees), codec.made.hemisphere)

\* C34: to_nmea_string emits exactly DDMM.MMMM, 9 characters, in latitude
\* format and exactly DDDMM.MMMM, 10 characters, in longitude format, for
\* every valid coordinate, those below 10 and below 100 degrees included.
C34_FixedWidth ==
    /\ codec.op = "to_nmea_string" /\ ~codec.assigned
    /\ codec.lat_format <=> codec.self.hemisphere \in {"N", "S"}
    => IF codec.lat_format THEN IsFixed(codec.result, 9, 5)
       ELSE IsFixed(codec.result, 10, 6)

\* The coordinate a DDMM.MMMM or DDDMM.MMMM string denotes, in 1/6000000
\* of a degree, and whether its minutes are below 60.
Denotes(s) ==
    LET value == ParseFloat(s)[1]
    IN  (value \div 1000000) * 6000000 + (value % 1000000) * 10
MinutesBelow60(s) ==
    (IsFixed(s, 9, 5) \/ IsFixed(s, 10, 6)) /\ (ParseFloat(s)[1] % 1000000) < 600000

\* C35: for every string s in DDMM.MMMM or DDDMM.MMMM form with minutes
\* below 60 and every hemisphere h that from_nmea accepts it with,
\* to_nmea_string(from_nmea(s, h)) denotes the coordinate s denotes to
\* within 1e-4 degrees.
C35_RoundTrip ==
    /\ codec.op = "to_nmea_string" /\ ~codec.assigned
    /\ codec.from.op = "from_nmea()" /\ MinutesBelow60(codec.from.nmea_value)
    => /\ ParseFloat(codec.result) # <<>>
       /\ Abs(Denotes(codec.result) - Denotes(codec.from.nmea_value)) <= 600

\* 0507.4040 N comes back as 507.4040.
C35_Witness ==
    /\ codec.op = "to_nmea_string" /\ ~codec.assigned /\ codec.lat_format
    /\ codec.from.op = "from_nmea()" /\ codec.from.direction = "N"
    /\ codec.from.nmea_value = <<"0", "5", "0", "7", ".", "4", "0", "4", "0">>
    /\ codec.result = <<"5", "0", "7", ".", "4", "0", "4", "0">>

\* C36: get_total_distance returns the sum of the distances between
\* consecutive positions of the track, 0 for fewer than two positions, in
\* kilometres: three fixes 0.1 degree of latitude apart on one meridian
\* give a total between 20 and 25.  The result is held in tenths of the
\* unit returned.
C36_TotalInKilometres ==
    codec.op = "get_total_distance" =>
        /\ codec.result = PathLength(codec.positions)
        /\ Len(codec.positions) < 2 => codec.result = 0
        /\ codec.positions = << [latitude |-> 480, longitude |-> 110],
                                [latitude |-> 481, longitude |-> 110],
                                [latitude |-> 482, longitude |-> 110] >>
               => 20 * 10 < codec.result /\ codec.result < 25 * 10

\* C37: the Haversine distance is symmetric and zero on identical points,
\* a.distance_to(b) = b.distance_to(a) and a.distance_to(a) = 0, for
\* Position (kilometres) and for GPSPosition (meters).
C37_SymmetricAndZero ==
    /\ codec.op = "Position.distance_to" =>
           /\ codec.result = Position_distance_to(codec.other, codec.self)
           /\ codec.self = codec.other => codec.result = 0
    /\ codec.op = "GPSPosition.distance_to" =>
           /\ codec.result = GPSPosition_distance_to(codec.other, codec.self)
           /\ codec.self = codec.other => codec.result = 0

\* From 60 N 180 E to 0 N 60 W: 11617.36 km.
C37_Witness ==
    /\ codec.op = "Position.distance_to"
    /\ codec.self = from_decimal(60, 180) /\ codec.other = from_decimal(0, -60)
    /\ codec.result = 6371 * 182348

\* A datagram leaves sock_recvfrom, and a callback is invoked.
DispatchStep == receiver'.stats.packets_received = receiver.stats.packets_received + 1
CallbackStep == Len(delivered') = Len(delivered) + 1

\* C38: datagrams are dispatched one at a time in arrival order.  The
\* loop takes a datagram only while it waits in sock_recvfrom, when no
\* callback of an earlier datagram is running or still to be called, and
\* every callback is invoked, and awaited, inside the for loop with the
\* text of the datagram received last, after the callbacks before it.
C38_OneDatagramAtATime ==
    [][/\ DispatchStep => rloop.pc = "recv" /\ delivered' = <<>>
       /\ CallbackStep =>
              /\ rloop.pc = "callbacks"
              /\ Len(delivered) = rloop.index - 1
              /\ delivered'[Len(delivered')].text = rloop.nmea_str
              /\ delivered'[Len(delivered')].callback = receiver.callbacks[rloop.index]
              /\ \A i \in 1..Len(delivered) : delivered'[i] = delivered[i]]_vars

\* The second datagram is with the second of two callbacks: the first has
\* returned.
C38_Witness ==
    /\ receiver.stats.packets_received = 2
    /\ Len(receiver.callbacks) = 2
    /\ rloop.pc = "callbacks" /\ rloop.index = 2 /\ Len(delivered) = 1

\* C39: a recorded success resets failure_count to 0 in every breaker
\* state, so that a Closed breaker opens only when failure_threshold
\* failures are recorded with no success between them: while fewer
\* failures than that occur in a row the breaker stays Closed.
C39_OpensOnlyOnFailuresInARow ==
    /\ [](streak = 0 => circuit_breaker.failure_count = 0)
    /\ [][circuit_breaker.state = "closed" /\ circuit_breaker'.state # "closed"
             => FailureStep /\ streak' >= Threshold]_vars

\* A success was recorded while the breaker was Open: the failures that
\* opened it are no longer counted.
C39_Witness ==
    /\ circuit_breaker.state = "open"
    /\ circuit_breaker.failure_count = 0
    /\ streak = 0

\* No call is in progress, and the step in which the breaker rejects a
\* call of task t.
NoCallInProgress == \A t \in Tasks : NotInCall(t)
RejectedStep(t) ==
    /\ calls' = calls + 1 /\ pc'[t] = "rejected"
    /\ \A u \in Tasks \ {t} : pc'[u] = pc[u]

\* C40: whenever every execute_with_retry call made on a client has
\* completed, total_attempts = successful + failed and retries_triggered
\* <= failed; a call the breaker rejects changes no counter and not the
\* breaker's failure_count.
C40_CountersAddUp ==
    /\ [](NoCallInProgress =>
            /\ stats.total_attempts = stats.successful + stats.failed
            /\ stats.retries_triggered <= stats.failed)
    /\ [][\A t \in Tasks : RejectedStep(t) =>
               /\ stats' = stats
               /\ circuit_breaker'.failure_count = circuit_breaker.failure_count]_vars

\* One call failed on both of its attempts and opened the breaker, and the
\* call after it was rejected.
C40_Witness ==
    /\ pc["t1"] = "rejected"
    /\ stats.total_attempts = 2 /\ stats.failed = 2 /\ stats.successful = 0
    /\ stats.retries_triggered = 1

====
